---- MODULE Spec2Model ----
(***************************************************************************)
(* A model of two programs of the twoliter repository.                     *)
(*                                                                         *)
(*  - the twoliter process (twoliter/src/main.rs): preflight, then         *)
(*    commands that run Project::fetch_sdk, whose temporary archive is     *)
(*    handed to the TempfileJanitor of twoliter/src/cleanup.rs; and the    *)
(*    janitor's signal handler.  Specification: Spec.                      *)
(*  - the buildsys process (tools/buildsys/src/main.rs): one build         *)
(*    request, from argument parsing to process exit.                      *)
(*    Specification: SpecBuild.                                            *)
(*  - the lookaside cache's modification times as build_package drives     *)
(*    them.  Specification: SpecCache.                                     *)
(*  - twoliter's identifiers (ValidIdentifier): parsing and display.       *)
(*    Specification: SpecIdent.                                            *)
(*  - twoliter's resolved project images (ProjectImage): their two URIs    *)
(*    and their display.  Specification: SpecImage.                        *)
(*  - the selection of the image tool (oci-cli-wrapper, image_tool).       *)
(*    Specification: SpecTool.                                             *)
(*  - the calls into krane: the operations of the crane backend            *)
(*    (oci-cli-wrapper, crane.rs) and the pull of fetch_sdk, with the      *)
(*    thread each part runs on.  Specification: SpecCrane.                 *)
(*  - twoliter's preflight checks (preflight.rs): the required tools and   *)
(*    the docker version.  Specification: SpecPreflight.                   *)
(*  - DockerArchitecture (oci-cli-wrapper, lib.rs): parsing and display.   *)
(*    Specification: SpecArch.                                             *)
(***************************************************************************)
EXTENDS Integers, Sequences, FiniteSets, TLC

VARIABLES
    \* ---- the twoliter process -------------------------------------------
    mainPc,            \* main.rs: "preflight" | "run"
    exitStatus,        \* "running" | "exit0" | "exit1" | "exit130" | "killed"
    pc,                \* pc[t]: position of fetch_sdk call t
    bodyErr,           \* bodyErr[t]: the with_tempfile body returned Err
    status_code,       \* status_code[t]: what krane pull returned to the running body
    held,              \* held[t]: release holds the TempPath it removed
    paths,             \* JANITOR.paths: ids (one per scope, = its file)
    lockHolder,        \* the Mutex around paths: 0 free, t a task, Handler
    disk,              \* temporary files present on disk
    undeleted,         \* files whose remove_file returned Err
    sdkCached,         \* the docker daemon holds the SDK image (docker images -q)
    handlerInstalled,  \* ctrlc::try_set_handler has succeeded
    already_handling,  \* the AtomicBool of setup_signal_handler
    pending,           \* signals queued for the handler thread
    hpc,               \* handler thread: "wait" | "cas" | "lock" | "sweep" | "exit"
    \* ---- history (observation only) ------------------------------------
    signalsSent,       \* number of termination signals so far
    sweeps,            \* number of times try_cleanup took the lock
    sweepDone,         \* try_cleanup has returned
    lateSignal,        \* a signal arrived while try_cleanup held the lock
    \* ---- the buildsys process -------------------------------------------
    bArgs,             \* the parsed command: kind, manifest dir, arch, cicd_hack
    bPc,               \* position in run() / build_*()
    bManifest,         \* what Manifest::new returned (NoManifest before)
    bTriggers,         \* the cargo:rerun-if-changed paths printed, in order
    bWarned,           \* a cargo:warning line was printed
    bFetched,          \* LookasideCache::fetch: "no" | "ok" | "err"
    bCache,            \* the cache entries of the external files, after fetch
    bServed,           \* what fetch downloaded for each external file
    bFileIdx,          \* the external file the bundling loop is at
    bVendored,         \* number of GoMod::vendor calls that returned Ok
    bFiles,            \* what ProjectInfo::crawl and SpecInfo::new returned
    bInvoked,          \* DockerBuild::build has been called
    bStatus,           \* the exit status of the sandbox executor, -1 before
    bErr,              \* the error run() returned (NoErr when none)
    bExit,             \* the process exit status, -1 while running
    \* ---- the lookaside cache over several runs of build_package ----------
    cClock,            \* the time of day
    cManifestMtime,    \* the modification time of Cargo.toml
    cEntry,            \* the cache entry of one external file: state and mtime
    cFetches,          \* number of fetches so far
    cLast,             \* the last event: "none" | "fetch_ok" | "fetch_err" | "other"
    \* ---- a ValidIdentifier made from text and shown again ------------------
    idInput,           \* the text given to from_str, a sequence of code points
    idParsed,          \* the result of from_str(idInput)
    idShown,           \* the Display text of the identifier parsed
    idReparsed,        \* the result of from_str on the Display text
    \* ---- a ProjectImage and what is asked of it ----------------------------
    pImage,            \* the ProjectImage: its image and its vendor
    pOrig,             \* the value of original_source_uri(), NoUri before the call
    pProj,             \* the value of project_image_uri(), NoUri before the call
    pShown,            \* the Display text, as its pieces in order; << >> before
    \* ---- the selection of the image tool ----------------------------------
    tEnv,              \* the environment: TWOLITER_KIT_IMAGE_TOOL and the programs
                       \* found on the PATH
    tResult,           \* the result of image_tool(), NoResult before the call
    \* ---- one operation that calls krane ------------------------------------
    kReq,              \* the operation asked for and its parameters
    kPc,               \* where the operation's future stands
    kSched,            \* what the scheduler thread executes: "poll" (the
                       \* futures, which yield at every await) | "fs" | "krane"
    kWorker,           \* what the blocking pool's thread executes: "idle" | "krane"
    kArgs,             \* the arguments krane was called with, << >> before
    kStatus,           \* krane's exit status, -1 while there is none
    kBytes,            \* the stdout get_config received from krane, NoBytes before
    kResult,           \* the operation's result, kind "none" while it runs
    \* ---- the preflight checks ----------------------------------------------
    fTools,            \* the programs which_global finds in the PATH
    fDocker,           \* what `docker version --format {{.Server.Version}}` gives
    fPc,               \* "tools" | "version" | "command" | "ran" | "failed"
    fErr,              \* the error preflight returned, "" when none
    \* ---- DockerArchitecture --------------------------------------------------
    aInput,            \* the string handed to DockerArchitecture::try_from
    aParsed,           \* its result, kind "none" before the call
    aShown,            \* the Display text of the parsed architecture, once written
    aReparsed          \* the result of parsing aShown, kind "none" before

procV == << mainPc, exitStatus >>
taskV == << pc, bodyErr, status_code, held >>
regV  == << paths, lockHolder >>
fsV   == << disk, undeleted >>
hdlV  == << handlerInstalled, already_handling, pending, hpc >>
histV == << signalsSent, sweeps, sweepDone, lateSignal >>

varsJ == << procV, taskV, regV, fsV, hdlV, histV, sdkCached >>

varsB == << bArgs, bPc, bManifest, bTriggers, bWarned, bFetched, bCache, bServed,
            bFileIdx, bVendored, bFiles, bInvoked, bStatus, bErr, bExit >>

varsC == << cClock, cManifestMtime, cEntry, cFetches, cLast >>

\* The variables of the library functions, which the two processes above leave
\* alone.
varsI == << idInput, idParsed, idShown, idReparsed >>

varsP == << pImage, pOrig, pProj, pShown >>

varsT == << tEnv, tResult >>

varsK == << kReq, kPc, kSched, kWorker, kArgs, kStatus, kBytes, kResult >>

varsF == << fTools, fDocker, fPc, fErr >>

varsA == << aInput, aParsed, aShown, aReparsed >>

varsL == << varsC, varsI, varsP, varsT, varsK, varsF, varsA >>

\* What the actions of each library function leave alone.
restC == << varsJ, varsB, varsI, varsP, varsT, varsK, varsF, varsA >>
restI == << varsJ, varsB, varsC, varsP, varsT, varsK, varsF, varsA >>
restP == << varsJ, varsB, varsC, varsI, varsT, varsK, varsF, varsA >>
restT == << varsJ, varsB, varsC, varsI, varsP, varsK, varsF, varsA >>
restK == << varsJ, varsB, varsC, varsI, varsP, varsT, varsF, varsA >>
restF == << varsJ, varsB, varsC, varsI, varsP, varsT, varsK, varsA >>
restA == << varsJ, varsB, varsC, varsI, varsP, varsT, varsK, varsF >>

vars == << varsJ, varsB, varsL >>

(***************************************************************************)
(* Bounds.                                                                 *)
(***************************************************************************)
NumTasks == 2
MaxSignals == 2
MaxFiles == 2
MaxList == 1
MaxTime == 2
MaxFetches == 2
MaxIdLen == 2
MaxImages == 2
MaxBelow == 1
MaxAbove == 1

Tasks == 1 .. NumTasks
Handler == NumTasks + 1

(***************************************************************************)
(* The twoliter process.                                                   *)
(***************************************************************************)
Running == exitStatus = "running"

\* Removing the file of a TempPath: std::fs::remove_file, by the sweep or by
\* TempPath's Drop.  It removes the file, or returns Err and leaves it.
RemoveFile(f) ==
    \E ok \in BOOLEAN :
        /\ disk' = IF ok THEN disk \ {f} ELSE disk
        /\ undeleted' = IF ok \/ f \notin disk THEN undeleted ELSE undeleted \cup {f}

\* The exit statuses krane can return.
KraneExitCodes == {0, 1}

\* The scopes whose insert has happened.
Inserted == { t \in Tasks :
                pc[t] \in {"pull", "load", "release", "release_drop", "done", "failed"} }

InitJ ==
    /\ mainPc = "preflight"
    /\ exitStatus = "running"
    /\ pc = [t \in Tasks |-> "idle"]
    /\ bodyErr = [t \in Tasks |-> FALSE]
    /\ status_code = [t \in Tasks |-> -1]
    /\ held = [t \in Tasks |-> FALSE]
    /\ paths = {}
    /\ lockHolder = 0
    /\ disk = {}
    /\ undeleted = {}
    /\ handlerInstalled = FALSE
    /\ already_handling = FALSE
    /\ pending = 0
    /\ hpc = "wait"
    /\ signalsSent = 0
    /\ sweeps = 0
    /\ sweepDone = FALSE
    /\ lateSignal = FALSE

\* ---- main.rs ----------------------------------------------------------
\* preflight(): check_environment() and nothing else; an Err ends main.
Preflight ==
    /\ Running /\ mainPc = "preflight"
    /\ \E ok \in BOOLEAN :
         IF ok THEN mainPc' = "run" /\ exitStatus' = exitStatus
               ELSE mainPc' = mainPc /\ exitStatus' = "exit1"
    /\ UNCHANGED << taskV, regV, fsV, hdlV, histV >>
    /\ UNCHANGED << sdkCached, varsB, varsL >>

\* cmd::run(args) returns once no fetch_sdk call is in flight; main returns its
\* result.
MainReturn ==
    /\ Running /\ mainPc = "run"
    /\ \A t \in Tasks : pc[t] \in {"idle", "cached", "done", "failed_early", "failed"}
    /\ \E t \in Tasks : pc[t] # "idle"
    /\ exitStatus' = IF \E t \in Tasks : pc[t] \in {"failed_early", "failed"}
                        THEN "exit1" ELSE "exit0"
    /\ UNCHANGED << mainPc, taskV, regV, fsV, hdlV, histV >>
    /\ UNCHANGED << sdkCached, varsB, varsL >>

\* ---- project/tasks.rs: fetch_sdk ---------------------------------------
\* fetch_sdk with the answer of image_is_cached taken the wrong way round.
ImageIsCachedInverted(t) ==
    /\ Running /\ mainPc = "run" /\ pc[t] = "idle"
    /\ \E searched \in BOOLEAN :
         pc' = [pc EXCEPT ![t] = CASE ~searched -> "failed_early"
                                   [] ~sdkCached -> "cached"
                                   [] OTHER -> "mktemp"]
    /\ UNCHANGED << bodyErr, status_code, held, procV, regV, fsV, hdlV, histV >>
    /\ UNCHANGED << sdkCached, varsB, varsL >>

\* Docker::image_is_cached(&sdk_uri).await?: an Err when docker could not be
\* asked, else whether `docker images -q` printed a hash; fetch_sdk returns Ok
\* when it did.
ImageIsCached(t) ==
    /\ Running /\ mainPc = "run" /\ pc[t] = "idle"
    /\ \E searched \in BOOLEAN :
         pc' = [pc EXCEPT ![t] = CASE ~searched -> "failed_early"
                                   [] sdkCached -> "cached"
                                   [] OTHER -> "mktemp"]
    /\ UNCHANGED << bodyErr, status_code, held, procV, regV, fsV, hdlV, histV >>
    /\ UNCHANGED << sdkCached, varsB, varsL >>

\* create_dir_all(..).await?; tempfile::Builder .. tempfile_in(..)?.into_temp_path()
MakeTempPath(t) ==
    /\ Running /\ pc[t] = "mktemp"
    /\ \E ok \in BOOLEAN :
         IF ok THEN /\ disk' = disk \cup {t}
                    /\ pc' = [pc EXCEPT ![t] = "host_platform"]
               ELSE /\ disk' = disk
                    /\ pc' = [pc EXCEPT ![t] = "failed_early"]
    /\ UNCHANGED << bodyErr, status_code, held, undeleted, procV, regV, hdlV, histV >>
    /\ UNCHANGED << sdkCached, varsB, varsL >>

\* Docker::host_platform().await? : on Err the local TempPath is dropped, and its
\* Drop removes the file.
HostPlatform(t) ==
    /\ Running /\ pc[t] = "host_platform"
    /\ \E ok \in BOOLEAN :
         IF ok THEN /\ pc' = [pc EXCEPT ![t] = "insert"]
                    /\ UNCHANGED fsV
               ELSE /\ pc' = [pc EXCEPT ![t] = "failed_early"]
                    /\ RemoveFile(t)
    /\ UNCHANGED << bodyErr, status_code, held, procV, regV, hdlV, histV >>
    /\ UNCHANGED << sdkCached, varsB, varsL >>

\* ---- cleanup.rs: with_tempfile -----------------------------------------
\* self.paths.lock().unwrap().insert(path_id, tmpfile);
Insert(t) ==
    /\ Running /\ pc[t] = "insert" /\ lockHolder = 0
    /\ paths' = paths \cup {t}
    /\ pc' = [pc EXCEPT ![t] = "pull"]
    /\ UNCHANGED << bodyErr, status_code, held, lockHolder, procV, fsV, hdlV, histV >>
    /\ UNCHANGED << sdkCached, varsB, varsL >>

\* The body, first half: call_krane_inherited_io(["pull", ..]).context(..)?
\* It returns Ok(ExitStatus::from_raw(status_code)) whatever the status; the body
\* never looks at the ExitStatus, and only an Err (an argument with a NUL byte)
\* leaves the body.
Pull(t) ==
    /\ Running /\ pc[t] = "pull"
    /\ \/ \E st \in KraneExitCodes :
            /\ status_code' = [status_code EXCEPT ![t] = st]
            /\ bodyErr' = bodyErr
            /\ pc' = [pc EXCEPT ![t] = "load"]
       \/ /\ status_code' = status_code
          /\ bodyErr' = [bodyErr EXCEPT ![t] = TRUE]
          /\ pc' = [pc EXCEPT ![t] = "release"]
    /\ UNCHANGED << held, procV, regV, fsV, hdlV, histV >>
    /\ UNCHANGED << sdkCached, varsB, varsL >>

\* The body, second half: Docker::load(&path_str).await?
Load(t) ==
    /\ Running /\ pc[t] = "load"
    /\ \E ok \in BOOLEAN :
         /\ bodyErr' = [bodyErr EXCEPT ![t] = ~ok]
         /\ sdkCached' = (sdkCached \/ ok)
    /\ pc' = [pc EXCEPT ![t] = "release"]
    /\ UNCHANGED << status_code, held, procV, regV, fsV, hdlV, histV >>
    /\ UNCHANGED << varsB, varsL >>

\* with_tempfile with `?` on the body's result: an Err returns before the remove.
ReleaseRemoveSkippedOnErr(t) ==
    /\ Running /\ pc[t] = "release" /\ lockHolder = 0
    /\ IF bodyErr[t]
          THEN /\ pc' = [pc EXCEPT ![t] = "failed"]
               /\ UNCHANGED << lockHolder, held, paths >>
          ELSE /\ lockHolder' = t
               /\ held' = [held EXCEPT ![t] = (t \in paths)]
               /\ paths' = paths \ {t}
               /\ pc' = [pc EXCEPT ![t] = "release_drop"]
    /\ status_code' = [status_code EXCEPT ![t] = -1]
    /\ UNCHANGED << bodyErr, procV, fsV, hdlV, histV >>
    /\ UNCHANGED << sdkCached, varsB, varsL >>

\* self.paths.lock().unwrap().remove(&path_id); the lock is taken and the entry
\* leaves the map.  The Option<TempPath> it returns is the statement's value.
\* The body is over: only its result is left of it.
ReleaseRemove(t) ==
    /\ Running /\ pc[t] = "release" /\ lockHolder = 0
    /\ lockHolder' = t
    /\ held' = [held EXCEPT ![t] = (t \in paths)]
    /\ paths' = paths \ {t}
    /\ pc' = [pc EXCEPT ![t] = "release_drop"]
    /\ status_code' = [status_code EXCEPT ![t] = -1]
    /\ UNCHANGED << bodyErr, procV, fsV, hdlV, histV >>
    /\ UNCHANGED << sdkCached, varsB, varsL >>

\* End of that statement: its value is dropped (TempPath's Drop removes the file),
\* then the MutexGuard temporary; with_tempfile returns Ok(result) and fetch_sdk
\* applies `??` to it.
ReleaseDrop(t) ==
    /\ Running /\ pc[t] = "release_drop" /\ lockHolder = t
    /\ IF held[t] THEN RemoveFile(t) ELSE UNCHANGED fsV
    /\ held' = [held EXCEPT ![t] = FALSE]
    /\ lockHolder' = 0
    /\ pc' = [pc EXCEPT ![t] = IF bodyErr[t] THEN "failed" ELSE "done"]
    /\ UNCHANGED << bodyErr, status_code, paths, procV, hdlV, histV >>
    /\ UNCHANGED << sdkCached, varsB, varsL >>

\* ---- cleanup.rs: setup_signal_handler and the handler -------------------
\* setup_signal_handler(): ctrlc::try_set_handler installs the closure; a second
\* try_set_handler is refused.  No source calls it (preflight, documented to, does
\* not), so its caller is left open here.
SetupSignalHandler ==
    /\ Running /\ ~handlerInstalled
    /\ handlerInstalled' = TRUE
    /\ UNCHANGED << already_handling, pending, hpc, procV, taskV, regV, fsV, histV >>
    /\ UNCHANGED << sdkCached, varsB, varsL >>

\* A SIGINT/SIGTERM/SIGHUP reaches the process.  With a handler installed it is
\* queued for the handler thread; without one its default disposition ends the
\* process at once.
Signal ==
    /\ Running /\ signalsSent < MaxSignals
    /\ signalsSent' = signalsSent + 1
    /\ lateSignal' = (lateSignal \/ hpc = "sweep")
    /\ IF handlerInstalled
          THEN pending' = pending + 1 /\ exitStatus' = exitStatus
          ELSE pending' = pending /\ exitStatus' = "killed"
    /\ UNCHANGED << mainPc, handlerInstalled, already_handling, hpc, sweeps,
                    sweepDone, taskV, regV, fsV >>
    /\ UNCHANGED << sdkCached, varsB, varsL >>

\* The handler closure is FnMut (it calls try_cleanup(&mut self)): invocations are
\* one after the other, on the one thread that takes signals off the queue.
HandlerWake ==
    /\ Running /\ handlerInstalled /\ hpc = "wait" /\ pending > 0
    /\ pending' = pending - 1
    /\ hpc' = "cas"
    /\ UNCHANGED << handlerInstalled, already_handling, procV, taskV, regV, fsV,
                    histV >>
    /\ UNCHANGED << sdkCached, varsB, varsL >>

\* A handler that only loads the flag: it is never set.
HandlerCasLoadOnly ==
    /\ Running /\ hpc = "cas"
    /\ hpc' = IF already_handling = FALSE THEN "lock" ELSE "exit"
    /\ UNCHANGED << handlerInstalled, already_handling, pending, procV, taskV, regV,
                    fsV, histV >>
    /\ UNCHANGED << sdkCached, varsB, varsL >>

\* A handler whose test is inverted (is_err): the first invocation skips the sweep.
HandlerCasInverted ==
    /\ Running /\ hpc = "cas"
    /\ already_handling' = TRUE
    /\ hpc' = IF already_handling = FALSE THEN "exit" ELSE "lock"
    /\ UNCHANGED << handlerInstalled, pending, procV, taskV, regV, fsV, histV >>
    /\ UNCHANGED << sdkCached, varsB, varsL >>

\* already_handling.compare_exchange(false, true, SeqCst, SeqCst).is_ok()
HandlerCas ==
    /\ Running /\ hpc = "cas"
    /\ already_handling' = TRUE
    /\ hpc' = IF already_handling = FALSE THEN "lock" ELSE "exit"
    /\ UNCHANGED << handlerInstalled, pending, procV, taskV, regV, fsV, histV >>
    /\ UNCHANGED << sdkCached, varsB, varsL >>

\* try_cleanup: if let Ok(mut paths) = self.paths.lock()
HandlerLock ==
    /\ Running /\ hpc = "lock" /\ lockHolder = 0
    /\ lockHolder' = Handler
    /\ sweeps' = sweeps + 1
    /\ hpc' = "sweep"
    /\ UNCHANGED << handlerInstalled, already_handling, pending, paths, signalsSent,
                    sweepDone, lateSignal, procV, taskV, fsV >>
    /\ UNCHANGED << sdkCached, varsB, varsL >>

\* A sweep that gives up at the first remove_file that fails.
HandlerSweepStopsOnErr ==
    /\ Running /\ hpc = "sweep" /\ lockHolder = Handler
    /\ IF paths # {}
          THEN \E f \in paths, ok \in BOOLEAN :
                 /\ paths' = paths \ {f}
                 /\ disk' = IF ok THEN disk \ {f} ELSE disk
                 /\ undeleted' = IF ok \/ f \notin disk THEN undeleted
                                  ELSE undeleted \cup {f}
                 /\ IF ok \/ f \notin disk
                       THEN UNCHANGED << lockHolder, hpc, sweepDone >>
                       ELSE lockHolder' = 0 /\ hpc' = "exit" /\ sweepDone' = TRUE
          ELSE /\ lockHolder' = 0
               /\ hpc' = "exit"
               /\ sweepDone' = TRUE
               /\ UNCHANGED << paths, fsV >>
    /\ UNCHANGED << handlerInstalled, already_handling, pending, signalsSent, sweeps,
                    lateSignal, procV, taskV >>
    /\ UNCHANGED << sdkCached, varsB, varsL >>

\* try_cleanup: one turn of `while let Some((_, path)) = paths.pop_first()`:
\* remove_file(&path), an Err only logged; the TempPath dropped at the end of the
\* turn repeats the attempt with the same outcome.  The ids are random: any entry
\* may be the first.  When the map is empty the guard is dropped and try_cleanup
\* returns.
HandlerSweep ==
    /\ Running /\ hpc = "sweep" /\ lockHolder = Handler
    /\ IF paths # {}
          THEN \E f \in paths :
                 /\ paths' = paths \ {f}
                 /\ RemoveFile(f)
                 /\ UNCHANGED << lockHolder, hpc, sweepDone >>
          ELSE /\ lockHolder' = 0
               /\ hpc' = "exit"
               /\ sweepDone' = TRUE
               /\ UNCHANGED << paths, fsV >>
    /\ UNCHANGED << handlerInstalled, already_handling, pending, signalsSent, sweeps,
                    lateSignal, procV, taskV >>
    /\ UNCHANGED << sdkCached, varsB, varsL >>

\* std::process::exit(130): the process ends; no destructor of any thread runs.
HandlerExit ==
    /\ Running /\ hpc = "exit"
    /\ exitStatus' = "exit130"
    /\ UNCHANGED << mainPc, taskV, regV, fsV, hdlV, histV >>
    /\ UNCHANGED << sdkCached, varsB, varsL >>

Next ==
    \/ Preflight
    \/ MainReturn
    \/ \E t \in Tasks : ImageIsCached(t)
    \/ \E t \in Tasks : MakeTempPath(t)
    \/ \E t \in Tasks : HostPlatform(t)
    \/ \E t \in Tasks : Insert(t)
    \/ \E t \in Tasks : Pull(t)
    \/ \E t \in Tasks : Load(t)
    \/ \E t \in Tasks : ReleaseRemove(t)
    \/ \E t \in Tasks : ReleaseDrop(t)
    \/ SetupSignalHandler
    \/ Signal
    \/ HandlerWake
    \/ HandlerCas
    \/ HandlerLock
    \/ HandlerSweep
    \/ HandlerExit

(***************************************************************************)
(* The buildsys process.                                                   *)
(***************************************************************************)
Kinds == {"package", "kit", "variant", "repack"}
Arches == {"x86_64", "aarch64"}
Dirs == {"pkgs/a", "pkgs/b"}
Names == {"a", "b"}
SrcPaths == {"f1", "f2"}

ManifestFile == "Cargo.toml"
KitMetadata == "external-kit-metadata.json"

\* Sequences over S of length at most n.
SeqsUpTo(S, n) == UNION { [1 .. k -> S] : k \in 0 .. n }

Range(q) == { q[i] : i \in 1 .. Len(q) }

\* An error of run(): its variant, the name and path it carries, and the error it
\* wraps as source.
NoErr == [kind |-> "none", name |-> "", path |-> "", source |-> ""]
Err(k) == [kind |-> k, name |-> "", path |-> "", source |-> ""]

NoManifest == [parsed |-> FALSE]
NoFiles == [crawled |-> << >>, sources |-> << >>, patches |-> << >>]

\* The manifests Manifest::new can return.  external_files and supported_arches
\* are Options: has_* tells Some from None.  An external file is its
\* bundle_modules: TRUE for Some([Go]), FALSE for None.  The fields a build kind
\* never reads are held at None.
Manifests(kind) ==
    [ parsed : {TRUE},
      manifest_name : Names,
      package_features : IF kind = "package" THEN BOOLEAN ELSE {FALSE},
      variant_sensitive : IF kind = "package" THEN BOOLEAN ELSE {FALSE},
      has_external_files : IF kind = "package" THEN BOOLEAN ELSE {FALSE},
      external_files : IF kind = "package" THEN SeqsUpTo(BOOLEAN, MaxFiles) ELSE {<< >>},
      has_source_groups : IF kind = "package" THEN BOOLEAN ELSE {FALSE},
      has_supported_arches : IF kind \in {"variant", "repack"} THEN BOOLEAN ELSE {FALSE},
      supported_arches : IF kind \in {"variant", "repack"} THEN SUBSET Arches ELSE {{}} ]

\* A manifest as parsed: a None field carries no content.
WellFormed(m) ==
    /\ (~m.has_external_files => m.external_files = << >>)
    /\ (~m.has_supported_arches => m.supported_arches = {})

ManifestPath == bArgs.dir \o "/" \o ManifestFile

BRunning == bExit = -1

\* A failed step that is tried again: the error is noted and the process stays at
\* the step.
FailRetry(e) ==
    /\ bErr' = e
    /\ UNCHANGED << bExit, bPc >>

\* main(): run() returned Err(e): eprintln!, process::exit(1).
Fail(e) ==
    /\ bErr' = e
    /\ bExit' = 1
    /\ bPc' = "exited"

\* main(): run() returned Ok(()).
Succeed ==
    /\ bErr' = bErr
    /\ bExit' = 0
    /\ bPc' = "exited"

Goto(p) ==
    /\ bPc' = p
    /\ UNCHANGED << bErr, bExit >>

InitB ==
    /\ bArgs \in [kind : Kinds, dir : Dirs, arch : Arches, cicd_hack : BOOLEAN]
    /\ bPc = "start"
    /\ bManifest = NoManifest
    /\ bTriggers = << >>
    /\ bWarned = FALSE
    /\ bFetched = "no"
    /\ bCache = << >>
    /\ bServed = << >>
    /\ bFileIdx = 0
    /\ bVendored = 0
    /\ bFiles = NoFiles
    /\ bInvoked = FALSE
    /\ bStatus = -1
    /\ bErr = NoErr
    /\ bExit = -1

\* The buildsys variables while the twoliter process is the one observed.
InitBOff ==
    /\ bArgs = [kind |-> "kit", dir |-> "pkgs/a", arch |-> "x86_64", cicd_hack |-> FALSE]
    /\ bPc = "off"
    /\ bManifest = NoManifest
    /\ bTriggers = << >>
    /\ bWarned = FALSE
    /\ bFetched = "no"
    /\ bCache = << >>
    /\ bServed = << >>
    /\ bFileIdx = 0
    /\ bVendored = 0
    /\ bFiles = NoFiles
    /\ bInvoked = FALSE
    /\ bStatus = -1
    /\ bErr = NoErr
    /\ bExit = -1

\* build_package / build_kit / build_variant: the first two println!s.
\* repack_variant has none.
Announce ==
    /\ BRunning /\ bPc = "start"
    /\ bTriggers' = IF bArgs.kind = "repack" THEN bTriggers
                    ELSE bTriggers \o << ManifestFile, KitMetadata >>
    /\ Goto("manifest")
    /\ UNCHANGED << bArgs, bManifest, bWarned, bFetched, bCache, bServed, bFileIdx,
                    bVendored, bFiles, bInvoked, bStatus >>
    /\ UNCHANGED << varsJ, varsL >>

\* Manifest::new(..).context(ManifestParseSnafu)?
ManifestNew ==
    /\ BRunning /\ bPc = "manifest"
    /\ \/ /\ \E m \in Manifests(bArgs.kind) : WellFormed(m) /\ bManifest' = m
          /\ Goto(CASE bArgs.kind = "package" -> "ensure"
                    [] bArgs.kind = "kit" -> "cicd"
                    [] OTHER -> "arch")
       \/ /\ bManifest' = bManifest
          /\ Fail(Err("ManifestParse"))
    /\ UNCHANGED << bArgs, bTriggers, bWarned, bFetched, bCache, bServed, bFileIdx,
                    bVendored, bFiles, bInvoked, bStatus >>
    /\ UNCHANGED << varsJ, varsL >>

\* ensure_package_is_not_variant_sensitive without its second ensure!.
DeprecatedKeyErrorFirstOnly(m, path) ==
    IF m.package_features
       THEN [kind |-> "PackageFeatures", name |-> m.manifest_name, path |-> path,
             source |-> ""]
    ELSE NoErr

\* The error ensure_package_is_not_variant_sensitive returns, if any.
DeprecatedKeyError(m, path) ==
    IF m.package_features
       THEN [kind |-> "PackageFeatures", name |-> m.manifest_name, path |-> path,
             source |-> ""]
    ELSE IF m.variant_sensitive
       THEN [kind |-> "VariantSensitive", name |-> m.manifest_name, path |-> path,
             source |-> ""]
    ELSE NoErr

\* ensure_package_is_not_variant_sensitive(&manifest, &manifest_path)?
EnsureNotVariantSensitive ==
    /\ BRunning /\ bPc = "ensure"
    /\ LET e == DeprecatedKeyError(bManifest, ManifestPath)
       IN IF e = NoErr THEN Goto("external") ELSE Fail(e)
    /\ UNCHANGED << bArgs, bManifest, bTriggers, bWarned, bFetched, bCache, bServed,
                    bFileIdx,
                    bVendored, bFiles, bInvoked, bStatus >>
    /\ UNCHANGED << varsJ, varsL >>

\* ---- cache.rs: LookasideCache::fetch -------------------------------------
\* A cache entry as fetch finds it: none, bytes with the declared digest, or bytes
\* with another digest.
EntryStates == {"absent", "valid", "stale"}

\* What a download brings: bytes with the declared digest, bytes with another
\* digest, or nothing (the source cannot be reached).
Downloads == {"match", "mismatch", "unreachable"}

\* The first file the fetch fails at, 0 when it fails at none: a file is
\* downloaded when it has no valid entry, and the download must match.
FirstFailure(before, served) ==
    LET bad == { i \in DOMAIN before : before[i] # "valid" /\ served[i] # "match" }
    IN IF bad = {} THEN 0 ELSE CHOOSE i \in bad : \A j \in bad : i <= j

\* The files are taken in order and the first failure ends the fetch.  A valid
\* entry is reused; otherwise the bytes are downloaded to a staging location,
\* verified, and moved into place only when their digest is the declared one.
LookasideFetch(before, served) ==
    LET k == FirstFailure(before, served)
        n == Len(before)
    IN [ ok |-> k = 0,
         cause |-> IF k = 0 THEN ""
                   ELSE IF served[k] = "mismatch" THEN "ChecksumMismatch"
                   ELSE "Download",
         cache |-> [i \in 1 .. n |-> IF k = 0 \/ i < k THEN "valid" ELSE before[i]],
         served |-> [i \in 1 .. n |-> IF (k = 0 \/ i <= k) /\ before[i] # "valid"
                                         THEN served[i] ELSE "none"] ]

\* The fetch without its `?`: a failed fetch goes on to the bundling loop.
FetchErrorDropped ==
    /\ BRunning /\ bPc = "external"
    /\ IF ~bManifest.has_external_files
          THEN Goto("groups") /\ UNCHANGED << bFetched, bCache, bServed, bFileIdx >>
          ELSE \/ /\ UNCHANGED << bFetched, bCache, bServed, bFileIdx >>
                  /\ Fail(Err("FileMetadata"))
               \/ \E before \in [1 .. Len(bManifest.external_files) -> EntryStates],
                     served \in [1 .. Len(bManifest.external_files) -> Downloads] :
                    LET out == LookasideFetch(before, served)
                    IN /\ bCache' = out.cache
                       /\ bServed' = out.served
                       /\ IF out.ok
                             THEN /\ bFetched' = "ok"
                                  /\ bFileIdx' = 1
                                  /\ Goto("vendor")
                             ELSE /\ bFetched' = "err"
                                  /\ bFileIdx' = 1
                                  /\ Goto("vendor")
    /\ UNCHANGED << bArgs, bManifest, bTriggers, bWarned, bVendored, bFiles,
                    bInvoked, bStatus >>
    /\ UNCHANGED << varsJ, varsL >>

\* if let Some(files) = external_files(): std::fs::metadata(..)?, then
\* lookaside_cache.fetch(files, mtime).context(ExternalFileFetchSnafu)?
Fetch ==
    /\ BRunning /\ bPc = "external"
    /\ IF ~bManifest.has_external_files
          THEN Goto("groups") /\ UNCHANGED << bFetched, bCache, bServed, bFileIdx >>
          ELSE \/ /\ UNCHANGED << bFetched, bCache, bServed, bFileIdx >>
                  /\ Fail(Err("FileMetadata"))
               \/ \E before \in [1 .. Len(bManifest.external_files) -> EntryStates],
                     served \in [1 .. Len(bManifest.external_files) -> Downloads] :
                    LET out == LookasideFetch(before, served)
                    IN /\ bCache' = out.cache
                       /\ bServed' = out.served
                       /\ IF out.ok
                             THEN /\ bFetched' = "ok"
                                  /\ bFileIdx' = 1
                                  /\ Goto("vendor")
                             ELSE /\ bFetched' = "err"
                                  /\ bFileIdx' = bFileIdx
                                  /\ Fail([Err("ExternalFileFetch") EXCEPT
                                             !.source = out.cause])
    /\ UNCHANGED << bArgs, bManifest, bTriggers, bWarned, bVendored, bFiles,
                    bInvoked, bStatus >>
    /\ UNCHANGED << varsJ, varsL >>

\* One turn of `for f in files`: a file without bundle_modules is skipped, else
\* GoMod::vendor(..).context(GoModSnafu)?
Vendor ==
    /\ BRunning /\ bPc = "vendor"
    /\ IF bFileIdx > Len(bManifest.external_files)
          THEN Goto("groups") /\ UNCHANGED << bFileIdx, bVendored >>
       ELSE IF ~bManifest.external_files[bFileIdx]
          THEN Goto("vendor") /\ bFileIdx' = bFileIdx + 1 /\ bVendored' = bVendored
       ELSE \E ok \in BOOLEAN :
              IF ok THEN /\ Goto("vendor")
                         /\ bFileIdx' = bFileIdx + 1
                         /\ bVendored' = bVendored + 1
                    ELSE /\ Fail(Err("GoMod"))
                         /\ UNCHANGED << bFileIdx, bVendored >>
    /\ UNCHANGED << bArgs, bManifest, bTriggers, bWarned, bFetched, bCache, bServed,
                    bFiles, bInvoked, bStatus >>
    /\ UNCHANGED << varsJ, varsL >>

\* if let Some(groups) = source_groups(): ProjectInfo::crawl(&dirs)?, then one
\* println! per crawled file.
Crawl ==
    /\ BRunning /\ bPc = "groups"
    /\ IF ~bManifest.has_source_groups
          THEN Goto("spec") /\ UNCHANGED << bTriggers, bFiles >>
          ELSE \/ \E fs \in SeqsUpTo(SrcPaths, MaxList) :
                    /\ bFiles' = [bFiles EXCEPT !.crawled = fs]
                    /\ bTriggers' = bTriggers \o fs
                    /\ Goto("spec")
               \/ /\ UNCHANGED << bTriggers, bFiles >>
                  /\ Fail(Err("ProjectCrawl"))
    /\ UNCHANGED << bArgs, bManifest, bWarned, bFetched, bCache, bServed, bFileIdx,
                    bVendored, bInvoked, bStatus >>
    /\ UNCHANGED << varsJ, varsL >>

\* println! of the spec file, SpecInfo::new(..).context(SpecParseSnafu)?, then one
\* println! per source and one per patch.
SpecFile == "package.spec"

ReadSpec ==
    /\ BRunning /\ bPc = "spec"
    /\ \/ \E src \in SeqsUpTo(SrcPaths, MaxList), pat \in SeqsUpTo(SrcPaths, MaxList) :
            /\ bFiles' = [bFiles EXCEPT !.sources = src, !.patches = pat]
            /\ bTriggers' = bTriggers \o << SpecFile >> \o src \o pat
            /\ Goto("cicd")
       \/ /\ bFiles' = bFiles
          /\ bTriggers' = bTriggers \o << SpecFile >>
          /\ Fail(Err("SpecParse"))
    /\ UNCHANGED << bArgs, bManifest, bWarned, bFetched, bCache, bServed, bFileIdx,
                    bVendored, bInvoked, bStatus >>
    /\ UNCHANGED << varsJ, varsL >>

\* check_arch_support with its test inverted (contains without the `!`).
ArchUnsupportedInverted(m, arch) == m.has_supported_arches /\ arch \in m.supported_arches

\* check_arch_support where a manifest without the key is read as supporting no
\* architecture.
ArchUnsupportedNoneIsEmpty(m, arch) == arch \notin m.supported_arches

\* check_arch_support(manifest.info(), args.common.arch)
ArchUnsupported(m, arch) == m.has_supported_arches /\ arch \notin m.supported_arches

CheckArchSupport ==
    /\ BRunning /\ bPc = "arch"
    /\ IF ArchUnsupported(bManifest, bArgs.arch)
          THEN /\ bWarned' = TRUE
               /\ bExit' = 0
               /\ bPc' = "exited"
               /\ bErr' = bErr
          ELSE /\ bWarned' = bWarned
               /\ Goto("cicd")
    /\ UNCHANGED << bArgs, bManifest, bTriggers, bFetched, bCache, bServed, bFileIdx,
                    bVendored, bFiles, bInvoked, bStatus >>
    /\ UNCHANGED << varsJ, varsL >>

\* The short-circuit flag never read: every request goes on to the builder.
CicdHackIgnored ==
    /\ BRunning /\ bPc = "cicd"
    /\ Goto("builder")
    /\ UNCHANGED << bArgs, bManifest, bTriggers, bWarned, bFetched, bCache, bServed,
                    bFileIdx,
                    bVendored, bFiles, bInvoked, bStatus >>
    /\ UNCHANGED << varsJ, varsL >>

\* if args.common.cicd_hack { return Ok(()); }
CicdHack ==
    /\ BRunning /\ bPc = "cicd"
    /\ IF bArgs.cicd_hack THEN Succeed ELSE Goto("builder")
    /\ UNCHANGED << bArgs, bManifest, bTriggers, bWarned, bFetched, bCache, bServed,
                    bFileIdx,
                    bVendored, bFiles, bInvoked, bStatus >>
    /\ UNCHANGED << varsJ, varsL >>

\* DockerBuild::new_*(args, &manifest).context(BuilderInstantiationSnafu)?
NewBuilder ==
    /\ BRunning /\ bPc = "builder"
    /\ \E ok \in BOOLEAN :
         IF ok THEN Goto("build") ELSE Fail(Err("BuilderInstantiation"))
    /\ UNCHANGED << bArgs, bManifest, bTriggers, bWarned, bFetched, bCache, bServed,
                    bFileIdx,
                    bVendored, bFiles, bInvoked, bStatus >>
    /\ UNCHANGED << varsJ, varsL >>

\* The exit statuses the sandbox executor can report.
ExitCodes == {0, 1}

\* DockerBuild::build returns Ok exactly when the executor was spawned and reported
\* a zero exit status (-1: it could not be spawned).
DockerBuildOk(status) == status = 0

\* build() with its result dropped: run() returns Ok(()) whatever the executor did.
BuildResultDropped ==
    /\ BRunning /\ bPc = "build"
    /\ bInvoked' = TRUE
    /\ \E st \in ExitCodes \cup {-1} :
         /\ bStatus' = st
         /\ Succeed
    /\ UNCHANGED << bArgs, bManifest, bTriggers, bWarned, bFetched, bCache, bServed,
                    bFileIdx, bVendored, bFiles >>
    /\ UNCHANGED << varsJ, varsL >>

\* .build().context(BuildAttemptSnafu): the sandbox executor runs, and run()
\* returns what build() returned.
Build ==
    /\ BRunning /\ bPc = "build"
    /\ bInvoked' = TRUE
    /\ \E st \in ExitCodes \cup {-1} :
         /\ bStatus' = st
         /\ IF DockerBuildOk(st) THEN Succeed ELSE Fail(Err("BuildAttempt"))
    /\ UNCHANGED << bArgs, bManifest, bTriggers, bWarned, bFetched, bCache, bServed,
                    bFileIdx, bVendored, bFiles >>
    /\ UNCHANGED << varsJ, varsL >>

NextBuild ==
    \/ Announce
    \/ ManifestNew
    \/ EnsureNotVariantSensitive
    \/ Fetch
    \/ Vendor
    \/ Crawl
    \/ ReadSpec
    \/ CheckArchSupport
    \/ CicdHack
    \/ NewBuilder
    \/ Build

(***************************************************************************)
(* The lookaside cache over several runs of build_package: one external    *)
(* file, its cache entry and the manifest's modification time.             *)
(***************************************************************************)
Min(a, b) == IF a <= b THEN a ELSE b

NoEntry == [state |-> "absent", mtime |-> 0]

\* The entries a run can find: none, or a file of either digest with any
\* modification time up to now.
Entries(now) == {NoEntry} \cup [state : {"valid", "stale"}, mtime : 0 .. now]

InitC ==
    /\ cClock \in 0 .. MaxTime
    /\ cManifestMtime \in 0 .. cClock
    /\ cEntry \in Entries(cClock)
    /\ cFetches = 0
    /\ cLast = "none"

\* The cache variables while another program is the one observed.
InitCOff ==
    /\ cClock = 0
    /\ cManifestMtime = 0
    /\ cEntry = NoEntry
    /\ cFetches = 0
    /\ cLast = "off"

Tick ==
    /\ cLast # "off" /\ cClock < MaxTime
    /\ cClock' = cClock + 1
    /\ UNCHANGED << cManifestMtime, cEntry, cFetches, cLast >>
    /\ UNCHANGED restC

\* Cargo.toml is written between two runs; a new declared checksum makes a valid
\* entry stale.
ManifestEdited ==
    /\ cLast # "off"
    /\ cManifestMtime' = cClock
    /\ \E newsum \in BOOLEAN :
         cEntry' = IF newsum /\ cEntry.state = "valid"
                      THEN [cEntry EXCEPT !.state = "stale"] ELSE cEntry
    /\ cLast' = "other"
    /\ UNCHANGED << cClock, cFetches >>
    /\ UNCHANGED restC

\* The time handed to fetch with the wall clock in place of the manifest's time.
FetchMtimeNow(manifest_mtime, now) == now

\* let mtime = FileTime::from_last_modification_time(&metadata), the metadata of
\* manifest_path; lookaside_cache.fetch(files, mtime)
FetchMtime(manifest_mtime, now) == manifest_mtime

\* LookasideCache::fetch for the file: a valid entry is reused, else the bytes are
\* downloaded (they are written now) and an entry is made of them when their
\* digest is the declared one; the entry's modification time is then set to
\* min(actual, mtime).
ClampedFetch(entry, download, mtime, now) ==
    IF entry.state = "valid"
       THEN [ok |-> TRUE, entry |-> [entry EXCEPT !.mtime = Min(entry.mtime, mtime)]]
    ELSE IF download = "match"
       THEN [ok |-> TRUE, entry |-> [state |-> "valid", mtime |-> Min(now, mtime)]]
    ELSE [ok |-> FALSE, entry |-> entry]

\* One run of build_package as far as the fetch.
CacheFetch ==
    /\ cLast # "off" /\ cFetches < MaxFetches
    /\ \E download \in Downloads :
         LET out == ClampedFetch(cEntry, download,
                                 FetchMtime(cManifestMtime, cClock), cClock)
         IN /\ cEntry' = out.entry
            /\ cLast' = IF out.ok THEN "fetch_ok" ELSE "fetch_err"
    /\ cFetches' = cFetches + 1
    /\ UNCHANGED << cClock, cManifestMtime >>
    /\ UNCHANGED restC

NextCache ==
    \/ Tick
    \/ ManifestEdited
    \/ CacheFetch

(***************************************************************************)
(* ValidIdentifier (twoliter, project/image.rs).  Text is a sequence of     *)
(* Unicode code points.  The code points tried are the ends of the ranges  *)
(* is_valid_id_char matches, their neighbours outside the ranges, a space  *)
(* and a letter outside ASCII:                                             *)
(*   32 ' '  45 '-'  47 '/'  48 '0'  57 '9'  58 ':'  64 '@'  65 'A'  90 'Z' *)
(*   91 '['  95 '_'  96 '`'  97 'a'  122 'z'  123 '{'  233 e-acute          *)
(***************************************************************************)
CodePoints == {32, 45, 47, 48, 57, 58, 64, 65, 90, 91, 95, 96, 97, 122, 123, 233}

\* 'a'..='z' | 'A'..='Z' | '0'..='9' | '_' | '-' => true, _ => false
is_valid_id_char(c) ==
    \/ c \in 97 .. 122
    \/ c \in 65 .. 90
    \/ c \in 48 .. 57
    \/ c = 95
    \/ c = 45

\* The results of from_str: Ok(ValidIdentifier(text)), or an error with the
\* character it names (0 when it names none).
IdOk(text) == [ok |-> TRUE, text |-> text, err |-> "", bad |-> 0]

IdErr(err, bad) == [ok |-> FALSE, text |-> << >>, err |-> err, bad |-> bad]

NotParsed == IdErr("unset", 0)

\* The loop over input.chars() from position i on: the first character that
\* is_valid_id_char refuses ends it with an error.
RECURSIVE ScanChars(_, _)
ScanChars(input, i) ==
    IF i > Len(input) THEN IdOk(input)
    ELSE IF ~is_valid_id_char(input[i]) THEN IdErr("invalid character", input[i])
    ELSE ScanChars(input, i + 1)

\* from_str without the first ensure!.
from_strEmptyAllowed(input) == ScanChars(input, 1)

\* <ValidIdentifier as FromStr>::from_str
from_str(input) ==
    IF Len(input) = 0 THEN IdErr("empty string", 0)
    ELSE ScanChars(input, 1)

\* Display for a text that drops a leading '-'.
DisplayIdentifierStripped(id) ==
    IF Len(id.text) > 0 /\ id.text[1] = 45 THEN Tail(id.text) ELSE id.text

\* <ValidIdentifier as Display>::fmt: f.write_str(self.0.as_str())
DisplayIdentifier(id) == id.text

NotShown == [shown |-> FALSE, text |-> << >>]

InitI ==
    /\ idInput \in SeqsUpTo(CodePoints, MaxIdLen)
    /\ idParsed = NotParsed
    /\ idShown = NotShown
    /\ idReparsed = NotParsed

\* The identifier variables while another program is the one observed.
InitIOff ==
    /\ idInput = << >>
    /\ idParsed = IdErr("off", 0)
    /\ idShown = NotShown
    /\ idReparsed = IdErr("off", 0)

\* input.parse::<ValidIdentifier>(), also what Deserialize does with the string
\* it reads.
FromStr ==
    /\ idParsed = NotParsed
    /\ idParsed' = from_str(idInput)
    /\ UNCHANGED << idInput, idShown, idReparsed >>
    /\ UNCHANGED restI

\* identifier.to_string()
ShowIdentifier ==
    /\ idParsed.ok /\ ~idShown.shown
    /\ idShown' = [shown |-> TRUE, text |-> DisplayIdentifier(idParsed)]
    /\ UNCHANGED << idInput, idParsed, idReparsed >>
    /\ UNCHANGED restI

\* The text an identifier was shown as is parsed again.
Reparse ==
    /\ idShown.shown /\ idReparsed = NotParsed
    /\ idReparsed' = from_str(idShown.text)
    /\ UNCHANGED << idInput, idParsed, idShown >>
    /\ UNCHANGED restI

NextIdent ==
    \/ FromStr
    \/ ShowIdentifier
    \/ Reparse

(***************************************************************************)
(* ProjectImage (twoliter, project/image.rs): an Image with the vendor it   *)
(* resolved to.  A vendor is Verbatim(vendor) or Overridden(override), the  *)
(* override remembering the original vendor; it is written here as the     *)
(* kind, the original vendor's registry and the registry in use (the       *)
(* original one when Verbatim, the override's when Overridden).            *)
(***************************************************************************)
Registries == {"registry-a.example", "registry-b.example"}

KitNames == {"core-kit", "extra-kit"}

Versions == {"1.2.3", "4.0.0"}

Vendors ==
    { [kind |-> "Verbatim", original |-> r, registry |-> r] : r \in Registries }
    \cup [kind : {"Overridden"}, original : Registries, registry : Registries]

ProjectImages ==
    [image : [name : KitNames, version : Versions, vendor : {"bottlerocket"}],
     vendor : Vendors]

NoUri == [registry |-> "", repo |-> "", tag |-> ""]

\* ArtifactVendor::registry: the registry in use.
registry(vendor) == vendor.registry

\* ArtifactVendor::repo_for: the repository path derived from the image.
repo_for(vendor, image) == image.name

\* Overridden::original_vendor, wrapped as ArtifactVendor::Verbatim.
original_vendor(vendor) ==
    [kind |-> "Verbatim", original |-> vendor.original, registry |-> vendor.original]

\* ArtifactVendor::image_uri_for
image_uri_for(vendor, image) ==
    [registry |-> registry(vendor),
     repo |-> repo_for(vendor, image),
     tag |-> "v" \o image.version]

\* ProjectImage::original_source_uri
original_source_uri(pi) ==
    IF pi.vendor.kind = "Overridden"
       THEN image_uri_for(original_vendor(pi.vendor), pi.image)
       ELSE image_uri_for(pi.vendor, pi.image)

\* project_image_uri with the bare version as tag.
project_image_uriBareTag(pi) ==
    [registry |-> registry(pi.vendor),
     repo |-> repo_for(pi.vendor, pi.image),
     tag |-> pi.image.version]

\* project_image_uri with the original vendor's registry.
project_image_uriOriginal(pi) ==
    [registry |-> pi.vendor.original,
     repo |-> repo_for(pi.vendor, pi.image),
     tag |-> "v" \o pi.image.version]

\* ProjectImage::project_image_uri
project_image_uri(pi) ==
    [registry |-> registry(pi.vendor),
     repo |-> repo_for(pi.vendor, pi.image),
     tag |-> "v" \o pi.image.version]

\* Display for ImageUri: registry/repo:tag
UriText(uri) == uri.registry \o "/" \o uri.repo \o ":" \o uri.tag

\* Display for ProjectImage with the arm of Verbatim for every vendor.
DisplayProjectImageShort(pi) ==
    << pi.image.name, "-", pi.image.version, "@", UriText(original_source_uri(pi)) >>

\* Display for ProjectImage: the pieces written, in order.
DisplayProjectImage(pi) ==
    IF pi.vendor.kind = "Overridden"
       THEN << pi.image.name, "-", pi.image.version, "@",
               UriText(original_source_uri(pi)),
               " (overridden-to: ", UriText(project_image_uri(pi)), ")" >>
       ELSE << pi.image.name, "-", pi.image.version, "@",
               UriText(original_source_uri(pi)) >>

InitP ==
    /\ pImage \in ProjectImages
    /\ pOrig = NoUri
    /\ pProj = NoUri
    /\ pShown = << >>

\* The image variables while another program is the one observed.
InitPOff ==
    /\ pImage = [image |-> [name |-> "", version |-> "", vendor |-> ""],
                 vendor |-> [kind |-> "off", original |-> "", registry |-> ""]]
    /\ pOrig = NoUri
    /\ pProj = NoUri
    /\ pShown = << >>

OriginalSourceUri ==
    /\ pImage.vendor.kind # "off" /\ pOrig = NoUri
    /\ pOrig' = original_source_uri(pImage)
    /\ UNCHANGED << pImage, pProj, pShown >>
    /\ UNCHANGED restP

ProjectImageUri ==
    /\ pImage.vendor.kind # "off" /\ pProj = NoUri
    /\ pProj' = project_image_uri(pImage)
    /\ UNCHANGED << pImage, pOrig, pShown >>
    /\ UNCHANGED restP

ShowProjectImage ==
    /\ pImage.vendor.kind # "off" /\ pShown = << >>
    /\ pShown' = DisplayProjectImage(pImage)
    /\ UNCHANGED << pImage, pOrig, pProj >>
    /\ UNCHANGED restP

NextImage ==
    \/ OriginalSourceUri
    \/ ProjectImageUri
    \/ ShowProjectImage

(***************************************************************************)
(* image_tool (oci-cli-wrapper, lib.rs): which backend serves the image     *)
(* operations.  The environment is the value of TWOLITER_KIT_IMAGE_TOOL    *)
(* (unset, a value that is not Unicode, or a text) and the set of programs *)
(* that which finds.                                                       *)
(***************************************************************************)
Programs == {"krane", "gcrane", "crane", "docker"}

ToolNames == Programs \cup {"podman", "Krane", ""}

Overrides ==
    [state : {"unset", "not_unicode"}, value : {""}]
    \cup [state : {"set"}, value : ToolNames]

Environments == [override : Overrides, installed : SUBSET Programs]

\* which(name): the path of the program, or an error.
which(name, installed) ==
    IF name \in installed THEN [ok |-> TRUE, path |-> "/usr/bin/" \o name]
    ELSE [ok |-> FALSE, path |-> ""]

\* Result::or
Or(a, b) == IF a.ok THEN a ELSE b

\* The values of image_tool(): Ok(ImageTool) with its backend and the path of the
\* program, or the error with the name it carries.
ToolOk(backend, path) ==
    [ok |-> TRUE, backend |-> backend, path |-> path, err |-> "", name |-> ""]

ToolErr(err, name) ==
    [ok |-> FALSE, backend |-> "", path |-> "", err |-> err, name |-> name]

NoResult == ToolErr("unset", "")

\* env::var("TWOLITER_KIT_IMAGE_TOOL"): Ok(name) for a value that is Unicode
\* text, Err for an unset variable and for a value that is not Unicode.
EnvVar(override) ==
    IF override.state = "set" THEN [ok |-> TRUE, name |-> override.value]
    ELSE [ok |-> FALSE, name |-> ""]

\* The arm for a named tool that probes instead when the tool is missing.
NamedToolWithFallback(name, installed) ==
    IF name \in {"docker", "crane", "gcrane", "krane"}
       THEN LET found == Or(which(name, installed),
                            Or(which("krane", installed), which("docker", installed)))
            IN IF found.ok
                  THEN ToolOk(IF name = "docker" THEN "DockerCLI" ELSE "CraneCLI",
                              found.path)
                  ELSE ToolErr("NotFound", name)
    ELSE ToolErr("Unsupported", name)

\* match name.as_str(): "docker", one of "crane" | "gcrane" | "krane", or any
\* other name.
NamedTool(name, installed) ==
    IF name = "docker"
       THEN LET found == which("docker", installed)
            IN IF found.ok THEN ToolOk("DockerCLI", found.path)
               ELSE ToolErr("NotFound", "docker")
    ELSE IF name \in {"crane", "gcrane", "krane"}
       THEN LET found == which(name, installed)
            IN IF found.ok THEN ToolOk("CraneCLI", found.path)
               ELSE ToolErr("NotFound", name)
    ELSE ToolErr("Unsupported", name)

\* The probing with crane tried before gcrane and krane.
ProbedToolCraneFirst(installed) ==
    LET found == Or(Or(which("crane", installed), which("gcrane", installed)),
                    which("krane", installed))
    IN IF found.ok THEN ToolOk("CraneCLI", found.path)
       ELSE LET docker == which("docker", installed)
            IN IF docker.ok THEN ToolOk("DockerCLI", docker.path)
               ELSE ToolErr("NoneFound", "")

\* which("krane").or(which("gcrane")).or(which("crane")), else which("docker")
ProbedTool(installed) ==
    LET found == Or(Or(which("krane", installed), which("gcrane", installed)),
                    which("crane", installed))
    IN IF found.ok THEN ToolOk("CraneCLI", found.path)
       ELSE LET docker == which("docker", installed)
            IN IF docker.ok THEN ToolOk("DockerCLI", docker.path)
               ELSE ToolErr("NoneFound", "")

\* image_tool()
image_tool(env) ==
    LET var == EnvVar(env.override)
    IN IF var.ok THEN NamedTool(var.name, env.installed)
       ELSE ProbedTool(env.installed)

InitT ==
    /\ tEnv \in Environments
    /\ tResult = NoResult

\* The tool variables while another program is the one observed.
InitTOff ==
    /\ tEnv = [override |-> [state |-> "off", value |-> ""], installed |-> {}]
    /\ tResult = NoResult

ImageTool ==
    /\ tEnv.override.state # "off" /\ tResult = NoResult
    /\ tResult' = image_tool(tEnv)
    /\ UNCHANGED tEnv
    /\ UNCHANGED restT

NextTool == ImageTool

(***************************************************************************)
(* The calls into krane.  One operation runs as a future on the scheduler   *)
(* thread: the five operations of the crane backend (crane.rs) and the     *)
(* pull of fetch_sdk (twoliter, project/tasks.rs).  krane is a foreign     *)
(* synchronous call: the thread that makes it executes nothing else until  *)
(* it returns.                                                             *)
(***************************************************************************)
CraneSites ==
    {"pull_oci_image", "get_manifest", "get_config", "push_oci_archive",
     "push_multi_platform_manifest"}

Sites == CraneSites \cup {"fetch_sdk"}

Uris == {"registry.example/core-kit:v1.2.3", "registry.example/sdk:v0.50.0"}

PlatformImages == {"registry.example/core-kit:v1.2.3-amd64"}

ArchivePath == "/build/archive.tar"

TempDirPath == "/build/.tmp0001"

\* The requests: the images of push_multi_platform_manifest are a list, the
\* other operations take none.
Requests ==
    { r \in [site : Sites, debug : BOOLEAN, uri : Uris,
             images : SeqsUpTo(PlatformImages, MaxImages)] :
        r.site # "push_multi_platform_manifest" => r.images = << >> }

\* for image in images { args.extend_from_slice(&["-m", image]) }
RECURSIVE ManifestArgs(_)
ManifestArgs(images) ==
    IF images = << >> THEN << >>
    ELSE << "-m", Head(images) >> \o ManifestArgs(Tail(images))

\* The cmd each operation hands to call or output.
Cmd(req) ==
    CASE req.site = "pull_oci_image" ->
            << "pull", "--format", "oci", req.uri, ArchivePath >>
      [] req.site = "get_manifest" -> << "manifest", req.uri >>
      [] req.site = "get_config" -> << "config", req.uri >>
      [] req.site = "push_oci_archive" -> << "push", TempDirPath, req.uri >>
      [] req.site = "push_multi_platform_manifest" ->
            << "index", "append" >> \o ManifestArgs(req.images) \o << "-t", req.uri >>
      [] OTHER -> << "pull", req.uri, ArchivePath, "--platform", "linux/amd64" >>

\* The error_msg each operation hands to call or output.
ErrorMsg(req) ==
    CASE req.site = "pull_oci_image" -> "failed to pull image archive from " \o req.uri
      [] req.site = "get_manifest" ->
            "failed to fetch manifest for resource at " \o req.uri
      [] req.site = "get_config" -> "failed to fetch image config from " \o req.uri
      [] req.site = "push_oci_archive" -> "failed to push image " \o req.uri
      [] req.site = "push_multi_platform_manifest" ->
            "could not push multi-platform manifest to " \o req.uri
      [] OTHER -> "Failed to pull SDK image"

\* CraneCLI::crane_cmd
crane_cmd(cmd, debug) == IF debug THEN << "-v" >> \o cmd ELSE cmd

\* A result: Ok, or the error with the fields its variant carries.
KResult(kind, message, program, args) ==
    [kind |-> kind, message |-> message, program |-> program, args |-> args]

NoKResult == KResult("none", "", "", << >>)

\* ensure!(status.success(), OperationFailedSnafu { message, program: "krane",
\* args })
EnsureSuccess(status, message, args) ==
    IF status = 0 THEN KResult("Ok", "", "", << >>)
    ELSE KResult("OperationFailed", message, "krane", args)

\* The bytes krane prints for config: text that is no JSON, or a JSON object
\* whose member "config" is missing, a string or an object; the object's member
\* for the labels is missing, named "labels" or named "Labels", and its value
\* is null, a string, a map with a number in it or a map of strings.
Doc(kind, config, key, labels) ==
    [kind |-> kind, config |-> config, key |-> key, labels |-> labels]

NoBytes == Doc("none", "", "", "")

Stdouts ==
    {Doc("garbage", "", "", "")}
    \cup {Doc("json", c, "", "") : c \in {"missing", "string"}}
    \cup {Doc("json", "object", k, "") : k \in {"missing", "labels"}}
    \cup {Doc("json", "object", "Labels", v) :
            v \in {"null", "string", "map_int", "map_str"}}

\* ConfigView with the member found under either spelling.
ConfigViewFromAnyCase(doc) ==
    /\ doc.key \in {"Labels", "labels"}
    /\ doc.key = "Labels" => doc.labels = "map_str"

\* Deserialize for ConfigView (rename_all = "PascalCase"): the member "Labels"
\* as a HashMap<String, String>.
ConfigViewFrom(doc) ==
    /\ doc.key = "Labels"
    /\ doc.labels = "map_str"

\* serde_json::from_slice::<ImageView>: JSON, with the member "config" as a
\* ConfigView; TRUE for Ok.
ImageViewFromSlice(doc) ==
    /\ doc.kind = "json"
    /\ doc.config = "object"
    /\ ConfigViewFrom(doc)

InitK ==
    /\ kReq \in Requests
    /\ kPc = "start"
    /\ kSched = "poll"
    /\ kWorker = "idle"
    /\ kArgs = << >>
    /\ kStatus = -1
    /\ kBytes = NoBytes
    /\ kResult = NoKResult

\* The krane variables while another program is the one observed.
InitKOff ==
    /\ kReq = [site |-> "off", debug |-> FALSE, uri |-> "", images |-> << >>]
    /\ kPc = "off"
    /\ kSched = "poll"
    /\ kWorker = "idle"
    /\ kArgs = << >>
    /\ kStatus = -1
    /\ kBytes = NoBytes
    /\ kResult = NoKResult

\* push_oci_archive: TempDir::new_in, File::open and the unpacking of the
\* archive are std calls made by the future itself.
Unpack ==
    /\ kPc = "start" /\ kReq.site = "push_oci_archive"
    /\ kSched' = "fs"
    /\ kPc' = "unpack"
    /\ UNCHANGED << kReq, kWorker, kArgs, kStatus, kBytes, kResult >>
    /\ UNCHANGED restK

UnpackReturn ==
    /\ kPc = "unpack"
    /\ kSched' = "poll"
    /\ \E out \in {"Ok", "CraneTemp", "ArchiveRead", "ArchiveExtract"} :
         IF out = "Ok"
            THEN kPc' = "ready" /\ UNCHANGED kResult
            ELSE kPc' = "done" /\ kResult' = KResult(out, "", "", << >>)
    /\ UNCHANGED << kReq, kWorker, kArgs, kStatus, kBytes >>
    /\ UNCHANGED restK

\* call and output: tokio::task::spawn_blocking(move || call_krane(&fork_args)),
\* awaited.
SpawnBlocking ==
    /\ \/ kPc = "start" /\ kReq.site \in CraneSites \ {"push_oci_archive"}
       \/ kPc = "ready"
    /\ kArgs' = crane_cmd(Cmd(kReq), kReq.debug)
    /\ kWorker' = "krane"
    /\ kPc' = "call"
    /\ UNCHANGED << kReq, kSched, kStatus, kBytes, kResult >>
    /\ UNCHANGED restK

\* fetch_sdk: call_krane_inherited_io(&["pull", ...]) inside the async block.
DirectCall ==
    /\ kPc = "start" /\ kReq.site = "fetch_sdk"
    /\ kArgs' = Cmd(kReq)
    /\ kSched' = "krane"
    /\ kPc' = "call"
    /\ UNCHANGED << kReq, kWorker, kStatus, kBytes, kResult >>
    /\ UNCHANGED restK

\* krane returns an exit status to call or output, which check it.  get_config
\* goes on to read the bytes.
KraneExits ==
    /\ kPc = "call" /\ kWorker = "krane"
    /\ \E status \in KraneExitCodes :
         /\ kStatus' = status
         /\ IF status = 0 /\ kReq.site = "get_config"
               THEN /\ kPc' = "decode"
                    /\ kBytes' \in Stdouts
                    /\ UNCHANGED kResult
               ELSE /\ kPc' = "done"
                    /\ kResult' = EnsureSuccess(status, ErrorMsg(kReq), kArgs)
                    /\ UNCHANGED kBytes
    /\ kWorker' = "idle"
    /\ UNCHANGED << kReq, kSched, kArgs >>
    /\ UNCHANGED restK

\* The blocking task does not give a status: it panicked (the JoinError becomes
\* Fork) or krane could not be run (the error becomes CraneFFI).
KraneFails ==
    /\ kPc = "call" /\ kWorker = "krane"
    /\ \E kind \in {"Fork", "CraneFFI"} : kResult' = KResult(kind, "", "", << >>)
    /\ kPc' = "done"
    /\ kWorker' = "idle"
    /\ UNCHANGED << kReq, kSched, kArgs, kStatus, kBytes >>
    /\ UNCHANGED restK

\* fetch_sdk: the call returns to the future; an Err gets the context "Failed to
\* pull SDK image", a status is dropped.
DirectReturn ==
    /\ kPc = "call" /\ kSched = "krane"
    /\ \/ \E status \in KraneExitCodes :
            /\ kStatus' = status
            /\ kResult' = KResult("Ok", "", "", << >>)
       \/ /\ kResult' = KResult("Context", ErrorMsg(kReq), "", << >>)
          /\ UNCHANGED kStatus
    /\ kPc' = "done"
    /\ kSched' = "poll"
    /\ UNCHANGED << kReq, kWorker, kArgs, kBytes >>
    /\ UNCHANGED restK

\* get_config: serde_json::from_slice(bytes) as ImageView, with the context
\* ConfigDeserialize.
Deserialize ==
    /\ kPc = "decode"
    /\ kResult' = IF ImageViewFromSlice(kBytes) THEN KResult("Ok", "", "", << >>)
                  ELSE KResult("ConfigDeserialize", "", "", << >>)
    /\ kPc' = "done"
    /\ UNCHANGED << kReq, kSched, kWorker, kArgs, kStatus, kBytes >>
    /\ UNCHANGED restK

NextCrane ==
    \/ Unpack
    \/ UnpackReturn
    \/ SpawnBlocking
    \/ DirectCall
    \/ KraneExits
    \/ KraneFails
    \/ DirectReturn
    \/ Deserialize

(***************************************************************************)
(* preflight (twoliter, preflight.rs): the required tools are looked up,   *)
(* then the docker daemon's version is read, parsed as a semver Version    *)
(* and matched against MINIMUM_DOCKER_VERSION; main runs the command only  *)
(* after preflight returned Ok.  A Version is major.minor.patch with a     *)
(* pre-release tag, "" when it has none; build metadata plays no part in   *)
(* matching.  A Comparator has -1 for a minor or patch that is None.       *)
(***************************************************************************)
REQUIRED_TOOLS == << "docker", "gzip", "lz4" >>

MINIMUM_DOCKER_VERSION ==
    << [op |-> ">=", major |-> 23, minor |-> -1, patch |-> -1, pre |-> ""] >>

Majors == (23 - MaxBelow) .. (23 + MaxAbove)

Version(major, minor, patch, pre) ==
    [major |-> major, minor |-> minor, patch |-> patch, pre |-> pre]

\* What Docker::server_version has to work with: docker could not be run or
\* printed nothing, printed text that is no semver version, or printed a
\* version.
DockerAnswers ==
    [kind : {"no_output", "not_semver"}, version : {Version(0, 0, 0, "")}]
    \cup [kind : {"version"},
          version : { Version(ma, mi, 0, pre) :
                        ma \in Majors, mi \in {0, 10}, pre \in {"", "rc.1"} }]

\* semver: matches_exact
matches_exact(cmp, ver) ==
    /\ ver.major = cmp.major
    /\ cmp.minor # -1 => ver.minor = cmp.minor
    /\ cmp.patch # -1 => ver.patch = cmp.patch
    /\ ver.pre = cmp.pre

\* semver: matches_greater; no comparator here names a minor, so the comparison
\* ends at the major or, the majors equal, with false at the minor that is None.
matches_greater(cmp, ver) ==
    IF ver.major # cmp.major THEN ver.major > cmp.major
    ELSE IF cmp.minor = -1 THEN FALSE
    ELSE IF ver.minor # cmp.minor THEN ver.minor > cmp.minor
    ELSE IF cmp.patch = -1 THEN FALSE
    ELSE ver.patch > cmp.patch

\* semver: matches_impl for Op::GreaterEq
matches_impl(cmp, ver) == matches_exact(cmp, ver) \/ matches_greater(cmp, ver)

\* semver: pre_is_compatible
pre_is_compatible(cmp, ver) ==
    /\ cmp.major = ver.major
    /\ cmp.minor = ver.minor
    /\ cmp.patch = ver.patch
    /\ cmp.pre # ""

\* MINIMUM_DOCKER_VERSION.matches(&docker_version): every comparator matches,
\* and a version with a pre-release tag needs a comparator with a pre-release
\* tag on the same major.minor.patch.
VersionReqMatches(req, ver) ==
    /\ \A i \in 1 .. Len(req) : matches_impl(req[i], ver)
    /\ \/ ver.pre = ""
       \/ \E i \in 1 .. Len(req) : pre_is_compatible(req[i], ver)

\* check_for_required_tools: the first tool of REQUIRED_TOOLS from position i on
\* that is not found, "" when all are.
RECURSIVE FirstMissing(_, _)
FirstMissing(tools, i) ==
    IF i > Len(REQUIRED_TOOLS) THEN ""
    ELSE IF REQUIRED_TOOLS[i] \notin tools THEN REQUIRED_TOOLS[i]
    ELSE FirstMissing(tools, i + 1)

InitF ==
    /\ fTools \in SUBSET Range(REQUIRED_TOOLS)
    /\ fDocker \in DockerAnswers
    /\ fPc = "tools"
    /\ fErr = ""

\* The preflight variables while another program is the one observed.
InitFOff ==
    /\ fTools = {}
    /\ fDocker = [kind |-> "no_output", version |-> Version(0, 0, 0, "")]
    /\ fPc = "off"
    /\ fErr = ""

\* check_for_required_tools()?
CheckForRequiredTools ==
    /\ fPc = "tools"
    /\ LET missing == FirstMissing(fTools, 1)
       IN IF missing = "" THEN fPc' = "version" /\ fErr' = fErr
          ELSE fPc' = "failed" /\ fErr' = "Failed to find required tool " \o missing
    /\ UNCHANGED << fTools, fDocker >>
    /\ UNCHANGED restF

\* check_docker_version().await?: Docker::server_version, then
\* ensure!(MINIMUM_DOCKER_VERSION.matches(&docker_version), ..)
CheckDockerVersion ==
    /\ fPc = "version"
    /\ IF fDocker.kind = "no_output"
          THEN fPc' = "failed" /\ fErr' = "Failed to fetch docker version"
       ELSE IF fDocker.kind = "not_semver"
          THEN fPc' = "failed" /\ fErr' = "Failed to parse docker version as semver"
       ELSE IF ~VersionReqMatches(MINIMUM_DOCKER_VERSION, fDocker.version)
          THEN /\ fPc' = "failed"
               /\ fErr' = "docker found in PATH does not meet the minimum version"
       ELSE fPc' = "command" /\ fErr' = fErr
    /\ UNCHANGED << fTools, fDocker >>
    /\ UNCHANGED restF

\* main: preflight::preflight().await? has returned Ok; cmd::run(args) starts.
RunCommand ==
    /\ fPc = "command"
    /\ fPc' = "ran"
    /\ UNCHANGED << fTools, fDocker, fErr >>
    /\ UNCHANGED restF

NextPreflight ==
    \/ CheckForRequiredTools
    \/ CheckDockerVersion
    \/ RunCommand

(***************************************************************************)
(* DockerArchitecture (oci-cli-wrapper, lib.rs): TryFrom<&str> matches the  *)
(* whole string against four literals, Display writes the docker name.     *)
(***************************************************************************)
DockerArchitectures == {"Amd64", "Arm64"}

\* The strings tried: every head followed by every tail, which gives the four
\* accepted names and strings that differ from them in case, by a missing or an
\* added part, or altogether.
ArchHeads == {"", "x86_", "X86_", "amd", "AMD", "aarch", "arm", "Arm", "ARM"}
ArchTails == {"", "64", "32", "64 ", "64le", "v8"}
ArchStrings == { h \o t : h \in ArchHeads, t \in ArchTails }

ArchOk(a) == [kind |-> "ok", arch |-> a, value |-> ""]
\* error::InvalidArchitectureSnafu { value: value.to_string() }
InvalidArchitecture(v) == [kind |-> "InvalidArchitecture", arch |-> "", value |-> v]
NotTried == [kind |-> "none", arch |-> "", value |-> ""]
ArchNotShown == [shown |-> FALSE, text |-> ""]

\* try_from accepting the docker names only.
try_fromDockerNamesOnly(value) ==
    CASE value = "amd64" -> ArchOk("Amd64")
      [] value = "arm64" -> ArchOk("Arm64")
      [] OTHER -> InvalidArchitecture(value)

\* impl TryFrom<&str> for DockerArchitecture
try_from(value) ==
    CASE value \in {"x86_64", "amd64"} -> ArchOk("Amd64")
      [] value \in {"aarch64", "arm64"} -> ArchOk("Arm64")
      [] OTHER -> InvalidArchitecture(value)

\* impl Display for DockerArchitecture
DisplayDockerArchitecture(a) ==
    CASE a = "Amd64" -> "amd64"
      [] a = "Arm64" -> "arm64"

InitA ==
    /\ aInput \in ArchStrings
    /\ aParsed = NotTried
    /\ aShown = ArchNotShown
    /\ aReparsed = NotTried

\* The DockerArchitecture variables while another program is the one observed.
InitAOff ==
    /\ aInput = ""
    /\ aParsed = NotTried
    /\ aShown = ArchNotShown
    /\ aReparsed = NotTried

\* DockerArchitecture::try_from(aInput)
TryFrom ==
    /\ aParsed = NotTried
    /\ aParsed' = try_from(aInput)
    /\ UNCHANGED << aInput, aShown, aReparsed >>
    /\ UNCHANGED restA

\* arch.to_string()
ShowArchitecture ==
    /\ aParsed.kind = "ok"
    /\ aShown = ArchNotShown
    /\ aShown' = [shown |-> TRUE, text |-> DisplayDockerArchitecture(aParsed.arch)]
    /\ UNCHANGED << aInput, aParsed, aReparsed >>
    /\ UNCHANGED restA

\* DockerArchitecture::try_from(arch.to_string().as_str())
ReparseArchitecture ==
    /\ aShown.shown
    /\ aReparsed = NotTried
    /\ aReparsed' = try_from(aShown.text)
    /\ UNCHANGED << aInput, aParsed, aShown >>
    /\ UNCHANGED restA

NextArch ==
    \/ TryFrom
    \/ ShowArchitecture
    \/ ReparseArchitecture

(***************************************************************************)
(* Specifications.                                                         *)
(***************************************************************************)
InitLOff ==
    InitCOff /\ InitIOff /\ InitPOff /\ InitTOff /\ InitKOff /\ InitFOff /\ InitAOff

\* The docker daemon at the start of twoliter: with or without the SDK image.
InitDocker == sdkCached \in BOOLEAN

InitDockerOff == sdkCached = FALSE

Init == InitJ /\ InitDocker /\ InitBOff /\ InitLOff

Spec == Init /\ [][Next]_vars

InitBuild == InitJ /\ InitDockerOff /\ InitB /\ InitLOff

SpecBuild == InitBuild /\ [][NextBuild]_vars

InitCache ==
    /\ InitJ
    /\ InitDockerOff
    /\ InitBOff
    /\ InitC
    /\ InitIOff
    /\ InitPOff
    /\ InitTOff
    /\ InitKOff
    /\ InitFOff
    /\ InitAOff

SpecCache == InitCache /\ [][NextCache]_vars

InitIdent ==
    /\ InitJ
    /\ InitDockerOff
    /\ InitBOff
    /\ InitCOff
    /\ InitI
    /\ InitPOff
    /\ InitTOff
    /\ InitKOff
    /\ InitFOff
    /\ InitAOff

SpecIdent == InitIdent /\ [][NextIdent]_vars

InitImage ==
    /\ InitJ
    /\ InitDockerOff
    /\ InitBOff
    /\ InitCOff
    /\ InitIOff
    /\ InitP
    /\ InitTOff
    /\ InitKOff
    /\ InitFOff
    /\ InitAOff

SpecImage == InitImage /\ [][NextImage]_vars

InitTool ==
    /\ InitJ
    /\ InitDockerOff
    /\ InitBOff
    /\ InitCOff
    /\ InitIOff
    /\ InitPOff
    /\ InitT
    /\ InitKOff
    /\ InitFOff
    /\ InitAOff

SpecTool == InitTool /\ [][NextTool]_vars

InitCrane ==
    /\ InitJ
    /\ InitDockerOff
    /\ InitBOff
    /\ InitCOff
    /\ InitIOff
    /\ InitPOff
    /\ InitTOff
    /\ InitK
    /\ InitFOff
    /\ InitAOff

SpecCrane == InitCrane /\ [][NextCrane]_vars

InitPreflight ==
    /\ InitJ
    /\ InitDockerOff
    /\ InitBOff
    /\ InitCOff
    /\ InitIOff
    /\ InitPOff
    /\ InitTOff
    /\ InitKOff
    /\ InitF
    /\ InitAOff

SpecPreflight == InitPreflight /\ [][NextPreflight]_vars

InitArch ==
    /\ InitJ
    /\ InitDockerOff
    /\ InitBOff
    /\ InitCOff
    /\ InitIOff
    /\ InitPOff
    /\ InitTOff
    /\ InitKOff
    /\ InitFOff
    /\ InitA

SpecArch == InitArch /\ [][NextArch]_vars

(***************************************************************************)
(* Claims about the twoliter process (specification Spec).                 *)
(***************************************************************************)

\* C1: when a termination signal ends the process while a with_tempfile scope is
\* in flight, the process exits with status 130 and no temporary file that is in
\* the registry is left on disk.
C1_InterruptSweepsRegistry ==
    (/\ exitStatus \in {"killed", "exit130"}
     /\ \E t \in Tasks : pc[t] \in {"pull", "load", "release"}) =>
        /\ exitStatus = "exit130"
        /\ \A f \in paths : f \notin disk

\* C2: once the process has exited on an interrupt through the handler, no
\* temporary file of fetch_sdk is on disk unless its deletion failed: at no point
\* of fetch_sdk is the file outside the registry's reach.
C2_NoTempfileSurvivesInterrupt ==
    exitStatus = "exit130" => disk \subseteq undeleted

\* C3: try_cleanup takes the registry at most once in a process, whatever the
\* number of signals, and the handler is past its gate only with the flag set.
C3_SweepAtMostOnce ==
    /\ sweeps <= 1
    /\ (hpc \in {"lock", "sweep"} => already_handling)

C3_Witness == sweeps = 1 /\ sweepDone /\ signalsSent >= 2

\* C4: a signal that arrives during the sweep starts no second sweep and does not
\* end the process: a signal ends the process itself only while no sweep has
\* begun, and the handler's exit(130) comes only after the one sweep has emptied
\* the registry and returned.
C4_FirstSignalWins ==
    /\ (lateSignal => sweeps = 1 /\ exitStatus # "killed")
    /\ (exitStatus = "killed" => sweeps = 0)
    /\ (exitStatus = "exit130" => sweeps = 1 /\ sweepDone)

C4_Witness == lateSignal /\ exitStatus = "exit130" /\ disk = {} /\ Inserted # {}

\* C5: when the handler has ended the process, no temporary file that was inserted
\* into the registry is on disk, unless its deletion failed.
C5_NoRegisteredFileSurvives ==
    exitStatus = "exit130" => \A t \in Inserted : t \in disk => t \in undeleted

\* The scopes that have registered and not yet released.
Registered == { t \in Tasks : pc[t] \in {"pull", "load", "release"} }

\* C15: a scope whose body has finished, with Ok or with Err, has its entry out of
\* the registry and its file deleted (unless the deletion failed); while no signal
\* has arrived the registry holds exactly the scopes that have registered and not
\* yet released, so it is empty once every scope has ended.
C15_RegistryTracksLiveScopes ==
    /\ \A t \in Tasks :
          pc[t] \in {"done", "failed"} =>
              /\ t \notin paths
              /\ (t \in disk => t \in undeleted)
              /\ (pc[t] = "failed" <=> bodyErr[t])
    /\ (signalsSent = 0 => paths = Registered)

C15_Witness ==
    /\ signalsSent = 0 /\ paths = {} /\ disk = {}
    /\ \E t \in Tasks : pc[t] = "failed" /\ bodyErr[t]
    /\ \E t \in Tasks : pc[t] = "done"

\* C16: when krane pull has returned a non-zero exit status, the body of
\* with_tempfile ends with an error: it does not end with Ok after loading the
\* archive.
C16_NonZeroPullAborts ==
    \A t \in Tasks :
        (status_code[t] > 0 /\ pc[t] = "release") => bodyErr[t]

\* C17: preflight installs the interrupt handler: once main is past preflight a
\* handler is installed, so one is in place whenever the registry holds an entry.
C17_HandlerInstalledByPreflight ==
    /\ (mainPc = "run" => handlerInstalled)
    /\ (paths # {} => handlerInstalled)

\* C18: a turn of the sweep takes one entry out of the registry and, whether or
\* not its file could be deleted, leaves the handler in the sweep with the lock
\* held and the process running; the sweep ends only on an empty registry, and
\* from there the handler only goes to its exit.
C18_SweepSurvivesDeletionFailure ==
    [][ /\ (hpc = "sweep" /\ paths' # paths =>
               /\ hpc' = "sweep" /\ lockHolder' = Handler
               /\ exitStatus' = "running"
               /\ Cardinality(paths') = Cardinality(paths) - 1
               /\ ((paths \ paths') \cap disk') \subseteq undeleted')
        /\ (hpc = "sweep" /\ hpc' # "sweep" =>
               hpc' = "exit" /\ paths = {} /\ sweepDone')
        /\ (hpc = "exit" => hpc' = "exit" /\ exitStatus' # "killed")
      ]_vars

C18_Witness ==
    /\ exitStatus = "exit130" /\ paths = {}
    /\ \A t \in Tasks : pc[t] \in {"pull", "load", "release"}
    /\ Cardinality(undeleted) = 1 /\ disk = undeleted

\* C19: the lock is held only for one map insert or remove: no file is deleted
\* while it is held, neither by release (which holds no removed TempPath under
\* the lock) nor by the sweep (which holds the lock over no entry still to
\* delete).
C19_LockOnlyAroundMapOps ==
    /\ (lockHolder \in Tasks => ~held[lockHolder])
    /\ (lockHolder = Handler => paths = {})

\* C32: fetch_sdk goes on to the temporary file, the pull and the load only when
\* the daemon does not hold the image, and returns at once when it does: then it
\* has made no temporary file, registered nothing and pulled nothing.  The image
\* is loaded only by a fetch_sdk whose pull has returned, and while a fetch_sdk
\* pulls or loads its archive is in the registry (as long as no interrupt sweep
\* has begun to empty it).
C32_PullAndLoadOnlyWhenNotCached ==
    [][ /\ \A t \in Tasks :
             /\ (pc[t] = "idle" /\ pc'[t] = "cached") => sdkCached
             /\ (pc[t] = "idle" /\ pc'[t] = "mktemp") => ~sdkCached
             /\ pc'[t] = "cached" =>
                   /\ t \notin disk' /\ t \notin paths'
                   /\ status_code'[t] = -1 /\ ~bodyErr'[t]
                   /\ sdkCached'
             /\ (pc'[t] = "load" /\ pc[t] # "load") =>
                   pc[t] = "pull" /\ status_code'[t] \in KraneExitCodes
             /\ (pc'[t] \in {"pull", "load"} /\ sweeps' = 0) =>
                   t \in paths' /\ t \in disk'
        /\ sdkCached' # sdkCached =>
             \E t \in Tasks : pc[t] = "load" /\ pc'[t] = "release" /\ ~bodyErr'[t]
      ]_vars

C32_Witness ==
    /\ pc[1] = "done" /\ pc[2] = "cached"
    /\ sdkCached /\ disk = {} /\ paths = {}
    /\ sweeps = 0

(***************************************************************************)
(* Claims about the buildsys process (specification SpecBuild).            *)
(***************************************************************************)

\* C6: a build-package request whose manifest has package-features or
\* variant-sensitive goes no further than the check: nothing is fetched, bundled
\* or invoked, and it ends with exit status 1 and an error that names the package
\* and the manifest path.
C6_DeprecatedKeyFailsEarly ==
    (/\ bArgs.kind = "package"
     /\ bManifest.parsed
     /\ (bManifest.package_features \/ bManifest.variant_sensitive)) =>
        /\ bPc \in {"ensure", "exited"}
        /\ bFetched = "no" /\ bVendored = 0 /\ ~bInvoked
        /\ (bPc = "exited" =>
              /\ bExit = 1
              /\ bErr.kind \in {"PackageFeatures", "VariantSensitive"}
              /\ bErr.name = bManifest.manifest_name
              /\ bErr.path = bArgs.dir \o "/Cargo.toml")

C6_Witness ==
    /\ bPc = "exited" /\ bErr.kind = "VariantSensitive"
    /\ bManifest.parsed /\ bManifest.variant_sensitive /\ bManifest.has_external_files

\* C7: a variant or repack-variant build whose architecture is not in the
\* manifest's supported set ends at the check: exit status 0, a warning printed,
\* no error, the sandbox executor never invoked.
C7_UnsupportedArchExitsZero ==
    (/\ bArgs.kind \in {"variant", "repack"}
     /\ bManifest.parsed
     /\ bManifest.has_supported_arches
     /\ bArgs.arch \notin bManifest.supported_arches) =>
        /\ bPc \in {"arch", "exited"}
        /\ ~bInvoked
        /\ (bPc = "exited" => bExit = 0 /\ bWarned /\ bErr = NoErr)

C7_Witness ==
    /\ bArgs.kind = "repack" /\ bArgs.arch = "aarch64" /\ bPc = "exited"
    /\ bManifest.parsed /\ bManifest.supported_arches = {"x86_64"}
    /\ bWarned /\ bExit = 0

\* C8: for every build kind, when the sandbox executor is invoked the manifest
\* file and the external-kit metadata file have been announced and, for
\* build-package, so have the spec file and every crawled file, source and patch.
C8_InputsAnnouncedBeforeInvoke ==
    bInvoked =>
        /\ {ManifestFile, KitMetadata} \subseteq Range(bTriggers)
        /\ (bArgs.kind = "package" =>
              ({SpecFile} \cup Range(bFiles.crawled) \cup Range(bFiles.sources)
                 \cup Range(bFiles.patches)) \subseteq Range(bTriggers))

\* C9: no path is announced twice within one build request.
C9_NoTriggerTwice ==
    \A i, j \in 1 .. Len(bTriggers) : i # j => bTriggers[i] # bTriggers[j]

\* C10: bundling runs only after the fetch has succeeded, a failed fetch ends the
\* request with no bundling, and every descriptor that asks for bundling has been
\* bundled before the sandbox executor is reached.
C10_BundlingAfterFetchBeforeInvoke ==
    /\ ((bVendored > 0 \/ bPc = "vendor") => bFetched = "ok")
    /\ (bFetched = "err" => bVendored = 0 /\ bPc = "exited" /\ bExit = 1 /\ ~bInvoked)
    /\ ((bInvoked \/ bPc \in {"builder", "build"}) =>
          bVendored = Cardinality({ i \in 1 .. Len(bManifest.external_files) :
                                      bManifest.external_files[i] }))

C10_Witness == bInvoked /\ bVendored = 2 /\ bFetched = "ok"

\* C11: with the short-circuit flag set, whatever the build kind, the sandbox
\* executor is never invoked and no builder is made; the request ends with exit
\* status 0 unless an input could not be resolved, and when it ends with status 0
\* the manifest has been read and, for build-package, the external files are
\* fetched, every bundling is done and the spec file, the crawled files, the
\* sources and the patches are announced.
C11_ShortCircuitSkipsExecutor ==
    bArgs.cicd_hack =>
        /\ ~bInvoked
        /\ bPc \notin {"builder", "build"}
        /\ bErr.kind \notin {"BuilderInstantiation", "BuildAttempt"}
        /\ (bPc = "exited" /\ bExit = 0 =>
              /\ bManifest.parsed
              /\ bErr = NoErr
              /\ (bArgs.kind = "package" =>
                    /\ (bManifest.has_external_files => bFetched = "ok")
                    /\ bVendored = Cardinality({ i \in 1 .. Len(bManifest.external_files) :
                                                   bManifest.external_files[i] })
                    /\ ({ManifestFile, KitMetadata, SpecFile} \cup Range(bFiles.crawled)
                          \cup Range(bFiles.sources) \cup Range(bFiles.patches))
                             \subseteq Range(bTriggers)))

C11_Witness ==
    /\ bArgs.cicd_hack /\ bArgs.kind = "package"
    /\ bPc = "exited" /\ bExit = 0 /\ ~bInvoked
    /\ bFetched = "ok" /\ bVendored >= 1 /\ bFiles.sources # << >>

\* C12: once the sandbox executor has been invoked the request is over, with exit
\* status 0 or 1 and nothing else: 0 exactly when the executor reported a zero
\* exit status, and 1, with the build-attempt error, when it reported a non-zero
\* status or could not be run.
C12_OutcomeFollowsExecutorStatus ==
    bInvoked =>
        /\ bPc = "exited"
        /\ bExit \in {0, 1}
        /\ (bExit = 0 <=> bStatus = 0)
        /\ (bExit = 0 => bErr = NoErr)
        /\ (bStatus # 0 => bExit = 1 /\ bErr.kind = "BuildAttempt")

C12_Witness == bInvoked /\ bStatus = 1 /\ bExit = 1 /\ bErr.kind = "BuildAttempt"

\* C13: an error raised before invocation ends the request there: the process has
\* exited with status 1, the sandbox executor was not invoked, and no stage after
\* the failed one has left a trace (nothing fetched after a manifest or metadata
\* error, nothing bundled after a fetch error, nothing crawled after a bundling
\* error, no spec read after a crawl error, nothing but the failed step tried).
C13_EarlyErrorAborts ==
    (bErr # NoErr /\ bErr.kind # "BuildAttempt") =>
        /\ bPc = "exited" /\ bExit = 1
        /\ ~bInvoked /\ bStatus = -1
        /\ (bErr.kind = "ManifestParse" => bManifest = NoManifest)
        /\ (bErr.kind \in {"ManifestParse", "PackageFeatures", "VariantSensitive",
                            "FileMetadata"} =>
              bFetched = "no" /\ bServed = << >>)
        /\ (bErr.kind \in {"ManifestParse", "PackageFeatures", "VariantSensitive",
                            "FileMetadata", "ExternalFileFetch"} =>
              bVendored = 0 /\ bFileIdx = 0)
        /\ (bErr.kind = "ExternalFileFetch" => bFetched = "err")
        /\ (bErr.kind \in {"ManifestParse", "PackageFeatures", "VariantSensitive",
                            "FileMetadata", "ExternalFileFetch", "GoMod",
                            "ProjectCrawl"} =>
              bFiles = NoFiles /\ SpecFile \notin Range(bTriggers))
        /\ (bErr.kind = "SpecParse" => bFiles.sources = << >> /\ bFiles.patches = << >>)

C13_Witness ==
    /\ bErr.kind = "GoMod" /\ bPc = "exited" /\ bExit = 1
    /\ bVendored = 1 /\ bFileIdx = 2 /\ bManifest.has_source_groups

\* C14 as stated: a request ends with status 0 without the sandbox executor having
\* run only when the architecture is unsupported for a variant or repack-variant
\* build.
C14_OnlyUnsupportedArchEndsEarly ==
    (bPc = "exited" /\ bExit = 0 /\ ~bInvoked) =>
        /\ bArgs.kind \in {"variant", "repack"}
        /\ bManifest.parsed
        /\ bManifest.has_supported_arches
        /\ bArgs.arch \notin bManifest.supported_arches

\* C14, amended: a request ends with status 0 without the sandbox executor having
\* run only when the architecture is unsupported for a variant or repack-variant
\* build, or when the short-circuit flag is set; the warning is printed in the
\* first case and in no other.
C14_EarlySuccessOnlyArchOrShortCircuit ==
    LET unsupported == /\ bArgs.kind \in {"variant", "repack"}
                       /\ bManifest.parsed
                       /\ bManifest.has_supported_arches
                       /\ bArgs.arch \notin bManifest.supported_arches
    IN /\ (bPc = "exited" /\ bExit = 0 /\ ~bInvoked) => (unsupported \/ bArgs.cicd_hack)
       /\ (bWarned => unsupported /\ bPc = "exited" /\ bExit = 0 /\ ~bInvoked)

C14_Witness ==
    /\ bPc = "exited" /\ bExit = 0 /\ ~bInvoked /\ ~bArgs.cicd_hack
    /\ bArgs.kind = "variant" /\ bWarned /\ bManifest.supported_arches = {}

\* C34: a variant or repack-variant build whose manifest declares no
\* supported-architecture set is never stopped by the architecture check, whatever
\* the target architecture: no warning is printed, and the request ends without
\* the sandbox executor having run only by the short-circuit (status 0) or because
\* the builder could not be constructed (status 1).
C34_NoSupportedSetSupportsAll ==
    (/\ bArgs.kind \in {"variant", "repack"}
     /\ bManifest.parsed
     /\ ~bManifest.has_supported_arches) =>
        /\ ~bWarned
        /\ (bPc = "exited" /\ ~bInvoked) =>
              \/ bArgs.cicd_hack /\ bExit = 0 /\ bErr = NoErr
              \/ ~bArgs.cicd_hack /\ bExit = 1 /\ bErr.kind = "BuilderInstantiation"

C34_Witness ==
    /\ bArgs.kind = "variant" /\ bArgs.arch = "aarch64"
    /\ bManifest.parsed /\ ~bManifest.has_supported_arches
    /\ bInvoked /\ ~bWarned /\ bPc = "exited"

\* C20: when the bytes downloaded for an external file do not have the declared
\* digest, the fetch has failed with a checksum-mismatch error, the file has no
\* valid cache entry (fetch downloads only when it found none), and build-package
\* has ended with status 1 with nothing bundled and the sandbox executor not
\* invoked.
C20_ChecksumMismatchFailsFetch ==
    \A i \in 1 .. Len(bServed) :
        bServed[i] = "mismatch" =>
            /\ bFetched = "err"
            /\ bErr.kind = "ExternalFileFetch" /\ bErr.source = "ChecksumMismatch"
            /\ bCache[i] # "valid"
            /\ bVendored = 0 /\ bFileIdx = 0
            /\ ~bInvoked
            /\ bPc = "exited" /\ bExit = 1

C20_Witness ==
    /\ Len(bServed) = 2 /\ bServed[1] = "match" /\ bServed[2] = "mismatch"
    /\ bCache = << "valid", "absent" >>
    /\ bManifest.external_files = << TRUE, TRUE >>
    /\ bPc = "exited" /\ bExit = 1
(***************************************************************************)
(* Claims about the lookaside cache (specification SpecCache).             *)
(***************************************************************************)

\* C21: after a fetch that succeeded the entry is valid and its modification time
\* is no later than the manifest's: it is the minimum of the time the file had
\* (the time of the download for a new entry) and the manifest's time; and a
\* fetch that follows a successful fetch, with the manifest untouched in between,
\* leaves the entry and its modification time as they were.
C21_MtimeClampedAndStable ==
    [][ cFetches' # cFetches =>
          /\ (cLast' = "fetch_ok" =>
                /\ cEntry'.state = "valid"
                /\ cEntry'.mtime <= cManifestMtime
                /\ cEntry'.mtime =
                      Min(IF cEntry.state = "valid" THEN cEntry.mtime ELSE cClock,
                          cManifestMtime))
          /\ (cLast = "fetch_ok" => cLast' = "fetch_ok" /\ cEntry' = cEntry)
      ]_vars

C21_Witness ==
    /\ cFetches = 2 /\ cLast = "fetch_ok"
    /\ cEntry.state = "valid" /\ cEntry.mtime = cManifestMtime
    /\ cClock > cManifestMtime
(***************************************************************************)
(* Claims about ValidIdentifier (specification SpecIdent).                 *)
(***************************************************************************)

\* The letters and digits of the rule, and the rule itself: a text is a legal
\* identifier when it is not empty and each of its characters is a letter (a-z,
\* A-Z), a digit, '_' or '-'.
Alphanumerics == (48 .. 57) \cup (65 .. 90) \cup (97 .. 122)

LegalText(text) ==
    /\ text # << >>
    /\ \A i \in 1 .. Len(text) : text[i] \in Alphanumerics \cup {95, 45}

\* C25: from_str succeeds exactly when the text is not empty and all its
\* characters are alphanumeric, '_' or '-', and every identifier there is has
\* such a text.
C25_IdentifierIffLegal ==
    /\ idParsed # NotParsed => (idParsed.ok <=> LegalText(idInput))
    /\ idParsed.ok => LegalText(idParsed.text)
    /\ idReparsed.ok => LegalText(idReparsed.text)

C25_Witness ==
    /\ idParsed.ok /\ Len(idInput) = 2
    /\ idInput[1] = 95 /\ idInput[2] = 45

\* C26: the Display text of the identifier parsed from a text is that text, and
\* parsing the Display text of an identifier gives back the identifier.
C26_RoundTrip ==
    /\ idShown.shown => idShown.text = idInput
    /\ idReparsed # NotParsed => idReparsed.ok /\ idReparsed = idParsed

C26_Witness ==
    /\ idReparsed.ok /\ idReparsed = idParsed
    /\ idShown.text = idInput /\ Len(idInput) = 2 /\ idInput[1] = 45
(***************************************************************************)
(* Claims about ProjectImage (specification SpecImage).                    *)
(***************************************************************************)
BothUris == pOrig # NoUri /\ pProj # NoUri

\* C22 as stated: the two URIs are equal exactly when the vendor is Verbatim,
\* also when the override's registry is the original vendor's.
C22_UrisEqualIffVerbatim ==
    BothUris => (pProj = pOrig <=> pImage.vendor.kind = "Verbatim")

\* C22: the two URIs are equal when the vendor is Verbatim, and for an
\* Overridden vendor exactly when the override gives the registry and the
\* repository that the original vendor gives.
C22_UrisEqualIffSameRegistry ==
    BothUris =>
        (pProj = pOrig <=>
            \/ pImage.vendor.kind = "Verbatim"
            \/ /\ registry(pImage.vendor) = registry(original_vendor(pImage.vendor))
               /\ repo_for(pImage.vendor, pImage.image) =
                    repo_for(original_vendor(pImage.vendor), pImage.image))

C22_Witness ==
    /\ BothUris /\ pImage.vendor.kind = "Overridden"
    /\ pImage.vendor.registry = pImage.vendor.original
    /\ pProj = pOrig

\* C23: with the vendor overridden from A to B, the registry of
\* project_image_uri() is B's, that of original_source_uri() is A's, and the tag
\* of project_image_uri() is "v" followed by the version.
C23_OverrideRegistryAndTag ==
    (BothUris /\ pImage.vendor.kind = "Overridden") =>
        /\ pProj.registry = pImage.vendor.registry
        /\ pOrig.registry = pImage.vendor.original
        /\ pProj.tag = "v" \o pImage.image.version

C23_Witness ==
    /\ BothUris /\ pImage.vendor.kind = "Overridden"
    /\ pImage.vendor.original = "registry-a.example"
    /\ pProj.registry = "registry-b.example"
    /\ pProj.tag = "v1.2.3"

\* The positions of the Display text that hold a URI.
UriPositions(shown) ==
    { i \in 1 .. Len(shown) :
        \E pi \in ProjectImages :
            shown[i] \in {UriText(original_source_uri(pi)),
                          UriText(project_image_uri(pi))} }

\* C24: the Display text of an Overridden image shows two URIs, the original
\* source URI and then the project image URI; that of a Verbatim image shows one
\* URI, the original source URI.
C24_DisplayShowsBothIffOverridden ==
    pShown # << >> =>
        LET at == UriPositions(pShown)
        IN IF pImage.vendor.kind = "Overridden"
              THEN /\ Cardinality(at) = 2
                   /\ \E i, j \in at :
                        /\ i < j
                        /\ pShown[i] = UriText(original_source_uri(pImage))
                        /\ pShown[j] = UriText(project_image_uri(pImage))
              ELSE /\ Cardinality(at) = 1
                   /\ \A i \in at : pShown[i] = UriText(original_source_uri(pImage))

C24_Witness ==
    /\ pShown # << >> /\ pImage.vendor.kind = "Overridden"
    /\ pImage.vendor.registry # pImage.vendor.original
    /\ Len(pShown) = 8
(***************************************************************************)
(* Claims about image_tool (specification SpecTool).                       *)
(***************************************************************************)

\* The order in which the tools are to be preferred.
Preference == << "krane", "gcrane", "crane", "docker" >>

\* C27: with TWOLITER_KIT_IMAGE_TOOL unset, image_tool() selects the first of
\* krane, gcrane, crane, docker that is installed (the crane backend for the
\* first three, the docker backend for docker), and fails with NoneFound when
\* none of them is installed; the result is determined by the environment.
C27_ProbesInPreferenceOrder ==
    (tResult # NoResult /\ tEnv.override.state = "unset") =>
        IF tEnv.installed \cap Programs = {}
           THEN ~tResult.ok /\ tResult.err = "NoneFound"
           ELSE \E i \in 1 .. Len(Preference) :
                   /\ Preference[i] \in tEnv.installed
                   /\ \A j \in 1 .. (i - 1) : Preference[j] \notin tEnv.installed
                   /\ tResult.ok
                   /\ tResult.path = "/usr/bin/" \o Preference[i]
                   /\ tResult.backend =
                        (IF Preference[i] = "docker" THEN "DockerCLI" ELSE "CraneCLI")

C27_Witness ==
    /\ tEnv.override.state = "unset"
    /\ tEnv.installed = {"gcrane", "crane", "docker"}
    /\ tResult.ok /\ tResult.path = "/usr/bin/gcrane"

\* C28: with TWOLITER_KIT_IMAGE_TOOL set to a name, image_tool() selects that
\* tool and no other: a name other than docker, crane, gcrane, krane gives the
\* error Unsupported; one of the four that is not installed gives the error
\* NotFound, whatever else is installed; one that is installed is selected.
C28_OverrideSelectsExactly ==
    (tResult # NoResult /\ tEnv.override.state = "set") =>
        LET name == tEnv.override.value
        IN IF name \notin Programs
              THEN ~tResult.ok /\ tResult.err = "Unsupported" /\ tResult.name = name
           ELSE IF name \notin tEnv.installed
              THEN ~tResult.ok /\ tResult.err = "NotFound" /\ tResult.name = name
           ELSE /\ tResult.ok
                /\ tResult.path = "/usr/bin/" \o name
                /\ tResult.backend =
                     (IF name = "docker" THEN "DockerCLI" ELSE "CraneCLI")

C28_Witness ==
    /\ tEnv.override = [state |-> "set", value |-> "crane"]
    /\ tEnv.installed = {"krane", "docker"}
    /\ ~tResult.ok /\ tResult.err = "NotFound" /\ tResult.name = "crane"
(***************************************************************************)
(* Claims about the calls into krane (specification SpecCrane).            *)
(***************************************************************************)
CraneOperation == kReq.site \in CraneSites

\* C29: every operation of the crane backend that fails reports the program and
\* the arguments krane was called with.
C29_EveryFailureCarriesCommand ==
    (CraneOperation /\ kResult.kind \notin {"none", "Ok"}) =>
        /\ kResult.program = "krane"
        /\ kResult.args # << >>
        /\ kResult.args = kArgs

\* C30: the scheduler thread never executes a blocking call itself, neither a
\* call into krane nor filesystem I/O.
C30_SchedulerNeverBlocked == kSched = "poll"

\* The image config get_config expects: a JSON object with an object "config"
\* that has a member "Labels" mapping strings to strings.
MatchesLabelSchema(doc) == doc = Doc("json", "object", "Labels", "map_str")

\* C31: when krane exited with status zero for get_config, the operation ends
\* with ConfigDeserialize if the bytes do not match the label schema and with Ok
\* if they do; it never ends with OperationFailed or CommandFailed.
C31_SchemaMismatchIsConfigDeserialize ==
    (kReq.site = "get_config" /\ kPc = "done" /\ kStatus = 0) =>
        /\ ~MatchesLabelSchema(kBytes) => kResult.kind = "ConfigDeserialize"
        /\ MatchesLabelSchema(kBytes) => kResult.kind = "Ok"
        /\ kResult.kind \notin {"OperationFailed", "CommandFailed"}

C31_Witness ==
    /\ kReq.site = "get_config" /\ kPc = "done" /\ kStatus = 0
    /\ kBytes = Doc("json", "object", "labels", "")
    /\ kResult.kind = "ConfigDeserialize"

(***************************************************************************)
(* Claims about preflight (specification SpecPreflight).                   *)
(***************************************************************************)

\* C33: the docker version read is accepted exactly when its major version is
\* at least 23; and preflight fails, the command not run, when a required tool
\* is missing or the version is not accepted.
C33_AcceptsIffMajorAtLeast23 ==
    /\ (fDocker.kind = "version" /\ fPc \in {"command", "ran", "failed"}
           /\ Range(REQUIRED_TOOLS) \subseteq fTools) =>
          (fPc \in {"command", "ran"} <=> fDocker.version.major >= 23)
    /\ fPc \in {"command", "ran"} =>
          /\ Range(REQUIRED_TOOLS) \subseteq fTools
          /\ fDocker.kind = "version"

C33_Witness ==
    /\ fPc = "failed"
    /\ Range(REQUIRED_TOOLS) \subseteq fTools
    /\ fDocker.kind = "version"
    /\ fDocker.version.major = 24
    /\ fDocker.version.pre = "rc.1"

(***************************************************************************)
(* Claims about DockerArchitecture (specification SpecArch).               *)
(***************************************************************************)

\* C35: parsing "x86_64" or "amd64" gives Amd64, parsing "aarch64" or "arm64"
\* gives Arm64, parsing any other string gives the invalid-architecture error
\* with that string as its value; and parsing the display text of an architecture
\* gives that architecture back.
C35_ParseAndRoundTrip ==
    /\ aParsed # NotTried =>
          aParsed = CASE aInput = "x86_64" \/ aInput = "amd64" -> ArchOk("Amd64")
                      [] aInput = "aarch64" \/ aInput = "arm64" -> ArchOk("Arm64")
                      [] OTHER -> [kind |-> "InvalidArchitecture", arch |-> "",
                                   value |-> aInput]
    /\ aReparsed # NotTried => aReparsed = aParsed /\ aParsed.kind = "ok"

C35_Witness ==
    /\ aInput = "aarch64"
    /\ aParsed = ArchOk("Arm64")
    /\ aShown.text = "arm64"
    /\ aReparsed = ArchOk("Arm64")
====
